---- MODULE Spec2Model ----
(***************************************************************************)
(* Model of the tag-addressable cache handlers of this repository:         *)
(*   GcsCacheHandler      src/cacheHandler/gcs-cache-handler.ts            *)
(*   FileCacheHandler     src/cacheHandler/file-cache-handler.ts           *)
(*   FileCacheHandler     src/unnamed/part_008 (build-id variant)          *)
(* The store is two partitions of JSON blobs (fetch-cache/, route-cache/), *)
(* one tag index blob (tags.json) and one build metadata blob.             *)
(***************************************************************************)
EXTENDS Integers, Sequences, FiniteSets, TLC

VARIABLES
  impl,                      \* which handler class the process loads
  fetchStore,                \* blobs under fetch-cache/ : blob name -> stored entry
  routeStore,                \* blobs under route-cache/ : blob name -> stored entry
  tagsFile,                  \* tags.json : NoFile or a mapping tag -> list of keys
  buildMeta,                 \* build-meta.json : NoFile or [buildId, timestamp]
  buildInvalidationChecked,  \* module-level flag of the running process
  handler,                   \* last constructed handler instance of the process
  env,                       \* process environment and build output (.next/)
  now,                       \* Date.now()
  last,                      \* the last operation, its arguments and its result
  decl,                      \* per key: what its most recent set declared
  cEntry, cBlob, cOut, cPc,  \* codec harness: input entry, stored form, result
  tasks,                     \* set calls in progress: where each one stands
  pending,                   \* notifier calls started and not yet settled
  cache                      \* the Maps of the in-memory handlers, by holder

storeVars == <<fetchStore, routeStore, tagsFile, buildMeta>>
procVars  == <<impl, buildInvalidationChecked, handler, env, now>>
memVars   == <<cache>>
\* What the file and bucket handlers never touch.
codecVars == <<cEntry, cBlob, cOut, cPc, memVars>>
asyncVars == <<tasks, pending>>
vars == <<storeVars, procVars, last, decl, codecVars, asyncVars>>

-----------------------------------------------------------------------------
(* JavaScript values.  Every value is a record with a type field t.        *)

Undefined   == [t |-> "undefined"]
JNull       == [t |-> "null"]
JStr(s)     == [t |-> "string", s |-> s]
JB64(c)     == [t |-> "string", b64 |-> c]      \* a string holding base64 text
JNum(n)     == [t |-> "number", n |-> n]
JArr(a)     == [t |-> "array", a |-> a]
JObj(f)     == [t |-> "object", f |-> f]        \* plain object: field -> value
JBuf(b)     == [t |-> "Buffer", bytes |-> b]    \* Buffer: sequence of bytes
JMap(m)     == [t |-> "Map", m |-> m]           \* Map: key -> value

Has(o, name) == o.t = "object" /\ name \in DOMAIN o.f
Opt(name, v) == IF v = Undefined THEN <<>> ELSE (name :> v)

(* Buffer.prototype.toString('base64'): three bytes become four sextets,   *)
(* the tail is padded with '=' (written Pad).                              *)
Pad == 64

RECURSIVE Base64Encode(_)
Base64Encode(b) ==
  IF Len(b) = 0 THEN <<>>
  ELSE IF Len(b) = 1 THEN
    << b[1] \div 4, (b[1] % 4) * 16, Pad, Pad >>
  ELSE IF Len(b) = 2 THEN
    << b[1] \div 4, (b[1] % 4) * 16 + (b[2] \div 16), (b[2] % 16) * 4, Pad >>
  ELSE
    << b[1] \div 4, (b[1] % 4) * 16 + (b[2] \div 16),
       (b[2] % 16) * 4 + (b[3] \div 64), b[3] % 64 >>
    \o Base64Encode(SubSeq(b, 4, Len(b)))

(* Buffer.from(text, 'base64'): four sextets become three bytes, padding   *)
(* ends the data.                                                          *)
RECURSIVE Base64Decode(_)
Base64Decode(c) ==
  IF Len(c) < 2 \/ c[1] = Pad \/ c[2] = Pad THEN <<>>
  ELSE
    LET b1 == c[1] * 4 + (c[2] \div 16)
    IN IF Len(c) < 3 \/ c[3] = Pad THEN << b1 >>
       ELSE
         LET b2 == (c[2] % 16) * 16 + (c[3] \div 4)
         IN IF Len(c) < 4 \/ c[4] = Pad THEN << b1, b2 >>
            ELSE << b1, b2, (c[3] % 4) * 64 + c[4] >>
                 \o Base64Decode(SubSeq(c, 5, Len(c)))

(* JSON.parse(JSON.stringify(x)): a Buffer is written through its toJSON   *)
(* as {type:"Buffer", data:[bytes]}, a Map has no enumerable fields and is *)
(* written as {}.                                                          *)
RECURSIVE JsonRoundTrip(_)
JsonRoundTrip(x) ==
  CASE x.t = "Buffer" ->
         JObj([type |-> JStr("Buffer"),
               data |-> JArr([i \in 1..Len(x.bytes) |-> JNum(x.bytes[i])])])
    [] x.t = "Map"    -> JObj(<<>>)
    [] x.t = "object" -> JObj([n \in DOMAIN x.f |-> JsonRoundTrip(x.f[n])])
    [] x.t = "array"  -> JArr([i \in 1..Len(x.a) |-> JsonRoundTrip(x.a[i])])
    [] OTHER          -> x

BufferEnvelope(b) == JObj([type |-> JStr("Buffer"), data |-> JB64(Base64Encode(b.bytes))])

(* serializeForStorage, on the value of one entry: only the top-level      *)
(* fields body, rscData and segmentData are looked at.                     *)
MapEnvelope(m) ==
  JObj([type |-> JStr("Map"),
        data |-> JObj([k \in DOMAIN m.m |->
                         IF m.m[k].t = "Buffer" THEN BufferEnvelope(m.m[k])
                         ELSE m.m[k]])])

SerializeField(n, x) ==
  IF n \in {"body", "rscData"} /\ x.t = "Buffer" THEN BufferEnvelope(x)
  ELSE IF n = "segmentData" /\ x.t = "Map" THEN MapEnvelope(x)
  ELSE x

SerializeValue(v) ==
  IF v.t = "object"
  THEN JObj([n \in DOMAIN v.f |-> SerializeField(n, v.f[n])])
  ELSE v

serializeForStorage(entry) ==
  [value |-> SerializeValue(entry.value),
   lastModified |-> entry.lastModified,
   tags |-> entry.tags]

(* writeCacheEntry: the blob is JSON.stringify of the serialized entry;    *)
(* the blob is kept as the JSON tree its text denotes.                     *)
BlobOf(entry) ==
  LET s == serializeForStorage(entry)
  IN [value |-> JsonRoundTrip(s.value),
      lastModified |-> s.lastModified,
      tags |-> s.tags]

(* deserializeFromStorage.  Thrown stands for an exception raised while    *)
(* decoding (Buffer.from(undefined), Object.entries(undefined)).           *)
Thrown == [t |-> "throw"]

BufferFrom(d) ==
  IF d.t = "string" /\ "b64" \in DOMAIN d THEN JBuf(Base64Decode(d.b64))
  ELSE IF d.t = "array" THEN JBuf([i \in 1..Len(d.a) |-> d.a[i].n % 256])
  ELSE Thrown

\* gcs-cache-handler.ts also asks for 'data' in the envelope.
IsEnvelope(i, x, marker) ==
  /\ x.t = "object"
  /\ Has(x, "type")
  /\ x.f.type = JStr(marker)
  /\ (i = "gcs" => Has(x, "data"))

EnvelopeData(x) == IF Has(x, "data") THEN x.f.data ELSE Undefined

DecodeSegment(i, x) ==
  IF IsEnvelope(i, x, "Buffer") THEN BufferFrom(EnvelopeData(x)) ELSE x

DecodeMap(i, d) ==
  IF d.t \in {"undefined", "null"} THEN Thrown
  ELSE IF d.t # "object" THEN JMap(<<>>)
  ELSE LET m == [k \in DOMAIN d.f |-> DecodeSegment(i, d.f[k])]
       IN IF \E k \in DOMAIN m : m[k] = Thrown THEN Thrown ELSE JMap(m)

DeserializeField(i, n, x) ==
  IF n \in {"body", "rscData"} /\ IsEnvelope(i, x, "Buffer")
  THEN BufferFrom(EnvelopeData(x))
  ELSE IF n = "segmentData" /\ IsEnvelope(i, x, "Map")
  THEN DecodeMap(i, EnvelopeData(x))
  ELSE x

DeserializeValue(i, v) ==
  IF v.t = "object"
  THEN LET f == [n \in DOMAIN v.f |-> DeserializeField(i, n, v.f[n])]
       IN IF \E n \in DOMAIN f : f[n] = Thrown THEN Thrown ELSE JObj(f)
  ELSE v

\* The entry read back from a blob, or Thrown.
deserializeFromStorage(i, blob) ==
  LET v == DeserializeValue(i, blob.value)
  IN IF v = Thrown THEN Thrown
     ELSE [value |-> v, lastModified |-> blob.lastModified, tags |-> blob.tags]

-----------------------------------------------------------------------------
(* Inputs of the model.                                                    *)

\* Cache keys are sequences of characters.
Keys == { <<"/", "a">>, <<"b", "-", "1">> }
SafeChars == {"a", "b", "c", "A", "Z", "0", "1", "9", "-"}
Tags == {"T", "U"}
TagLists == { <<>>, <<"T">>, <<"U">>, <<"T", "U">> }

\* revalidateTag takes one tag or an array of tags.
TagInputs == { JStr("T"), JStr("U"), JArr(<<"T", "U">>) }

\* Values handed to set: a fetch result, a route handler response, an
\* optimized image (bytes outside the fields the codec looks at).
FetchValue ==
  JObj([kind |-> JStr("FETCH"),
        data |-> JObj([body |-> JStr("W10="), status |-> JNum(200)]),
        revalidate |-> JNum(60)])
RouteValue ==
  JObj([kind |-> JStr("APP_ROUTE"), body |-> JBuf(<<104, 105>>), status |-> JNum(200)])
ImageValue ==
  JObj([kind |-> JStr("IMAGE"), buffer |-> JBuf(<<255>>), extension |-> JStr("png")])
Values == {FetchValue, RouteValue, ImageValue}

\* The second argument of get: no context, or a context with some of the
\* fields fetchCache, fetchUrl, fetchIdx.
NoCtx == [t |-> "undefined"]
Contexts ==
  { NoCtx,
    JObj([kind |-> JStr("APP_PAGE")]),
    JObj([fetchCache |-> TRUE]),
    JObj([fetchCache |-> FALSE]),
    JObj([fetchUrl |-> JStr("u")]),
    JObj([fetchIdx |-> JNum(1)]) }

Impls == {"gcs", "file", "fileBuildId"}

NoFile == [nofile |-> TRUE]

-----------------------------------------------------------------------------
(* Blob naming and the two partitions.                                     *)

\* cacheKey.replace(/[^a-zA-Z0-9-]/g, '_')
\* A naming that keeps the dot apart from the other replaced characters.
getCacheFilePathKeepDot(cacheKey) ==
  [i \in 1..Len(cacheKey) |->
     IF cacheKey[i] \in SafeChars \cup {"."} THEN cacheKey[i] ELSE "_"]

getCacheFilePath(cacheKey) ==
  [i \in 1..Len(cacheKey) |-> IF cacheKey[i] \in SafeChars THEN cacheKey[i] ELSE "_"]

BlobNames == { getCacheFilePath(k) : k \in Keys }

\* set: the partition follows the kind of the value.
CacheTypeOfValue(v) ==
  IF v.t = "object" /\ Has(v, "kind") /\ v.f.kind = JStr("FETCH") THEN "fetch" ELSE "route"

\* determineCacheType without the fetchIdx test.
determineCacheTypeNoIdx(ctx) ==
  IF ctx = NoCtx THEN "route"
  ELSE IF Has(ctx, "fetchCache") /\ ctx.f.fetchCache = TRUE THEN "fetch"
  ELSE IF Has(ctx, "fetchUrl") THEN "fetch"
  ELSE "route"

determineCacheType(ctx) ==
  IF ctx = NoCtx THEN "route"
  ELSE IF Has(ctx, "fetchCache") /\ ctx.f.fetchCache = TRUE THEN "fetch"
  ELSE IF Has(ctx, "fetchUrl") THEN "fetch"
  ELSE IF Has(ctx, "fetchIdx") THEN "fetch"
  ELSE "route"

Partition(fs, rs, cacheType) == IF cacheType = "fetch" THEN fs ELSE rs

\* Outcomes of one backend call (readFile, writeFile, file.save, ...).
IoOutcomes == {"ok", "error"}

\* A blob whose content is not JSON text.
Garbled == [garbled |-> TRUE]

\* JSON.parse of the content of a blob.
JsonParse(blob) == IF blob = Garbled THEN Thrown ELSE blob

\* The value a statement completed with, as opposed to Thrown.
Done(x) == [done |-> x]

\* try { r } catch (error) { ... } without the catch clause.
Uncaught(r, fallback) == r

\* try { r } catch (error) { log; fallback }
Caught(r, fallback) == IF r = Thrown THEN fallback ELSE r

\* readCacheEntry that hands the stored blob on when decoding raised.
readCacheEntryRaw(i, fs, rs, cacheKey, cacheType, o) ==
  LET blob == Partition(fs, rs, cacheType)[getCacheFilePath(cacheKey)]
      body == IF o = "error" THEN Thrown
              ELSE IF blob = NoFile THEN (IF i = "gcs" THEN JNull ELSE Thrown)
              ELSE IF JsonParse(blob) = Thrown THEN Thrown
              ELSE IF deserializeFromStorage(i, blob) = Thrown THEN blob
              ELSE deserializeFromStorage(i, blob)
  IN Caught(body, JNull)

\* readCacheEntry under outcome o of the backend read: null when the read
\* fails, the blob is missing (exists() is false, readFile raises), the
\* content does not parse or does not decode.
readCacheEntryIO(i, fs, rs, cacheKey, cacheType, o) ==
  LET blob == Partition(fs, rs, cacheType)[getCacheFilePath(cacheKey)]
      body == IF o = "error" THEN Thrown
              ELSE IF blob = NoFile THEN (IF i = "gcs" THEN JNull ELSE Thrown)
              ELSE IF JsonParse(blob) = Thrown THEN Thrown
              ELSE deserializeFromStorage(i, blob)
  IN Caught(body, JNull)

\* readCacheEntry when the backend read succeeds.
readCacheEntry(i, fs, rs, cacheKey, cacheType) ==
  readCacheEntryIO(i, fs, rs, cacheKey, cacheType, "ok")

\* get: the whole body sits in a try whose catch returns null.
getIO(i, fs, rs, cacheKey, ctx, o) ==
  Caught(readCacheEntryIO(i, fs, rs, cacheKey, determineCacheType(ctx), o), JNull)

\* get, as a function of the store.
CacheGet(cacheKey, ctx) ==
  readCacheEntry(impl, fetchStore, routeStore, cacheKey, determineCacheType(ctx))

-----------------------------------------------------------------------------
(* The tag index (tags.json).                                              *)

Range(q) == { q[i] : i \in DOMAIN q }
EmptyMapping == <<>>

\* readTagsMapping: a missing file reads as the empty mapping.
readTagsMapping(tf) == IF tf = NoFile THEN EmptyMapping ELSE tf.map
writeTagsMapping(m) == [map |-> m]

\* initializeTagsMapping: creates the file when it does not exist.
initializeTagsMapping(tf) == IF tf = NoFile THEN writeTagsMapping(EmptyMapping) ELSE tf

\* The loop of updateTagsMapping without its includes() test.
RECURSIVE AddKeyToTagsNoTest(_, _, _)
AddKeyToTagsNoTest(m, cacheKey, tags) ==
  IF tags = <<>> THEN m
  ELSE LET tag == Head(tags)
           cur == IF tag \in DOMAIN m THEN m[tag] ELSE <<>>
       IN AddKeyToTagsNoTest([x \in (DOMAIN m) \cup {tag} |->
                                IF x = tag THEN Append(cur, cacheKey) ELSE m[x]],
                             cacheKey, Tail(tags))

\* updateTagsMapping(cacheKey, tags): the key is appended to the list of
\* every tag that does not hold it yet.
RECURSIVE AddKeyToTags(_, _, _)
AddKeyToTags(m, cacheKey, tags) ==
  IF tags = <<>> THEN m
  ELSE LET tag == Head(tags)
           cur == IF tag \in DOMAIN m THEN m[tag] ELSE <<>>
           nxt == IF cacheKey \in Range(cur) THEN cur ELSE Append(cur, cacheKey)
       IN AddKeyToTags([x \in (DOMAIN m) \cup {tag} |-> IF x = tag THEN nxt ELSE m[x]],
                       cacheKey, Tail(tags))

updateTagsMapping(tf, cacheKey, tags) ==
  writeTagsMapping(AddKeyToTags(readTagsMapping(tf), cacheKey, tags))

\* The bulk removal, were a tag with an emptied list kept in the mapping.
updateTagsMappingBulkDeleteKeepEmpty(tf, keysToDelete) ==
  LET m == readTagsMapping(tf)
  IN writeTagsMapping([tag \in DOMAIN m |->
                         SelectSeq(m[tag], LAMBDA k : k \notin Range(keysToDelete))])

\* updateTagsMappingBulkDelete(keys): the keys leave every list, a tag
\* whose list becomes empty leaves the mapping.
updateTagsMappingBulkDelete(tf, keysToDelete) ==
  LET m == readTagsMapping(tf)
      Keep(tag) == SelectSeq(m[tag], LAMBDA k : k \notin Range(keysToDelete))
      left == { tag \in DOMAIN m : Keep(tag) # <<>> }
  IN writeTagsMapping(IF left = {} THEN EmptyMapping ELSE [tag \in left |-> Keep(tag)])

-----------------------------------------------------------------------------
(* Blob writes and deletes.                                                *)

writeCacheEntry(store, cacheKey, entry) ==
  [store EXCEPT ![getCacheFilePath(cacheKey)] = BlobOf(entry)]

\* writeCacheEntry under outcome o of the backend write: the error is
\* logged and the blob stays as it was.
writeCacheEntryIO(store, cacheKey, entry, o) ==
  Caught(IF o = "error" THEN Thrown ELSE Done(writeCacheEntry(store, cacheKey, entry)),
         Done(store))

\* readTagsMapping under outcome o: an error reads as the empty mapping.
readTagsMappingIO(tf, o) ==
  Caught(IF o = "error" THEN Thrown ELSE Done(readTagsMapping(tf)), Done(EmptyMapping))

\* writeTagsMapping under outcome o: the error is logged.
writeTagsMappingIO(tf, m, o) ==
  Caught(IF o = "error" THEN Thrown ELSE Done(writeTagsMapping(m)), Done(tf))

\* updateTagsMapping under the outcomes of its read and of its write.
updateTagsMappingIO(tf, cacheKey, tags, oRead, oWrite) ==
  LET m == readTagsMappingIO(tf, oRead)
  IN Caught(IF m = Thrown THEN Thrown
            ELSE writeTagsMappingIO(tf, AddKeyToTags(m.done, cacheKey, tags), oWrite),
            Done(tf))

\* The backend outcomes one set meets.
SetOutcomes == [blob : IoOutcomes, indexRead : IoOutcomes, indexWrite : IoOutcomes]
AllOk == [blob |-> "ok", indexRead |-> "ok", indexWrite |-> "ok"]

\* set: the blob write, then the index update when there are tags, all in
\* a try whose catch logs.  ret is what the caller sees.
setIO(fs, rs, tf, cacheKey, entry, o) ==
  LET cacheType == CacheTypeOfValue(entry.value)
      store == Partition(fs, rs, cacheType)
      w == writeCacheEntryIO(store, cacheKey, entry, o.blob)
      u == IF w # Thrown /\ Len(entry.tags) > 0
           THEN updateTagsMappingIO(tf, cacheKey, entry.tags, o.indexRead, o.indexWrite)
           ELSE Done(tf)
      written == IF w = Thrown THEN store ELSE w.done
  IN [fs |-> IF cacheType = "fetch" THEN written ELSE fs,
      rs |-> IF cacheType = "route" THEN written ELSE rs,
      tf |-> IF u = Thrown THEN tf ELSE u.done,
      ret |-> Caught(IF w = Thrown \/ u = Thrown THEN Thrown ELSE Undefined, Undefined)]

\* deleteCacheEntry removes the blob if it is there; it catches every
\* error itself, so its caller never sees an exception.
deleteCacheEntry(store, cacheKey) ==
  [store EXCEPT ![getCacheFilePath(cacheKey)] = NoFile]
\* deleteCacheEntry without its catch clause, on a blob that is not there.
DeleteCacheEntryRethrows == TRUE

\* deleteCacheEntry catches what storage raises and logs it.
DeleteCacheEntryThrows == FALSE

-----------------------------------------------------------------------------
(* Bookkeeping of what callers asked for, kept beside the program state.   *)

NoOp == [op |-> "none", key |-> <<>>, arg |-> Undefined, ret |-> Undefined, edge |-> <<>>,
         io |-> AllOk]
\* Calls that run beside the operations.  A set call in progress is at
\* one of its awaits; a notifier call started by xInBackground() is in
\* flight until the HTTP DELETE settles.  The specifications that look at
\* whole operations only do not follow the calls in flight.
TaskIds == {1, 2}
Idle == [pc |-> "idle"]
NoTasks == [t \in TaskIds |-> Idle]
NoLog == [none |-> TRUE]
NotFollowed == [on |-> FALSE, calls |-> <<>>, log |-> NoLog]
NoneInFlight == [on |-> TRUE, calls |-> <<>>, log |-> NoLog]
Started(p, calls) == IF p.on THEN [p EXCEPT !.calls = p.calls \o calls] ELSE p

NeverSet ==
  [st |-> "never", part |-> "route", val |-> Undefined, tags |-> <<>>, lm |-> 0,
   hit |-> FALSE, wiped |-> FALSE]

\* The hint under which the entry declared for a key is looked up.
HintOf(part) == IF part = "fetch" THEN JObj([fetchCache |-> TRUE]) ELSE NoCtx

-----------------------------------------------------------------------------
(* Process environment, build output and the build guard.                  *)

MsPerMinute == 60 * 1000
HalfMinute == MsPerMinute \div 2

\* A build output: the content of .next/BUILD_ID (0: no such file), the
\* build id in the paths of build-manifest.json (0: none), the mtime of
\* .next/server, and the routes of prerender-manifest.json that have
\* initialRevalidateSeconds: false.
Build1 == [buildIdFile |-> 1, manifestId |-> 1, mtime |-> HalfMinute, static |-> {<<"/", "a">>}]
Build2 == [buildIdFile |-> 2, manifestId |-> 2, mtime |-> HalfMinute + 1, static |-> {<<"/", "a">>}]
Build3 == [buildIdFile |-> 0, manifestId |-> 3, mtime |-> 2 * MsPerMinute, static |-> {<<"/">>}]
Build0 == [buildIdFile |-> 0, manifestId |-> 0, mtime |-> 3 * MsPerMinute, static |-> {}]
Builds == {Build1, Build2, Build3, Build0}

Phases == {"phase-production-build", "phase-production-server"}
\* edge: OUTBOUND_PROXY_ENDPOINT is set; bucket: CACHE_BUCKET is set.
Envs == [phase : Phases, build : Builds, edge : BOOLEAN, bucket : {TRUE}]
ServingEnv ==
  [phase |-> "phase-production-server", build |-> Build1, edge |-> TRUE, bucket |-> TRUE]

isBuildPhase(e) == e.phase = "phase-production-build"

getBuildId(e, clock) ==
  IF e.build.buildIdFile # 0 THEN <<"id", e.build.buildIdFile>>
  ELSE IF e.build.manifestId # 0 THEN <<"id", e.build.manifestId>>
  ELSE <<"fallback", clock>>

getServerDirModificationTime(e) == e.build.mtime

\* The build metadata the guard writes for the running build.
CurrentBuildMeta(i, e, clock) ==
  IF i = "file"
  THEN [buildId |-> <<"build", getServerDirModificationTime(e)>>,
        timestamp |-> getServerDirModificationTime(e)]
  ELSE [buildId |-> getBuildId(e, clock), timestamp |-> clock]

\* A guard that takes every run for a new build.
NewBuildDetectedAlways(i, meta, cur) == TRUE

\* The guard of file-cache-handler.ts, were the timestamps compared as
\* they are and not by their minute.
NewBuildDetectedToTheMillisecond(i, meta, cur) ==
  IF i = "file" THEN meta.timestamp < cur.timestamp ELSE meta.buildId # cur.buildId

\* The comparison of the guard: build ids, or minutes of the server
\* directory mtime in file-cache-handler.ts.
NewBuildDetected(i, meta, cur) ==
  IF i = "file"
  THEN (meta.timestamp \div MsPerMinute) < (cur.timestamp \div MsPerMinute)
  ELSE meta.buildId # cur.buildId

\* An eviction that deletes nothing.
invalidateRouteCacheKeep(rs) == rs

invalidateRouteCache(rs) == [n \in DOMAIN rs |-> NoFile]

NukeCall == [m |-> "nukeCache", a |-> <<>>]

\* clearEdgeCache without the test of this.edgeCacheClearer.
clearEdgeCacheAlways(h) == <<NukeCall>>

\* clearEdgeCache: nothing without a configured clearer.
clearEdgeCache(h) == IF h.edge THEN <<NukeCall>> ELSE <<>>

\* invalidateRouteCache when the deletes of the blobs in failed are
\* rejected: those blobs stay, and the rejection of Promise.all (of rm, of
\* unlink) is caught at the end of the function.
invalidateRouteCacheIO(rs, failed) ==
  [n \in DOMAIN rs |-> IF n \in failed THEN rs[n] ELSE invalidateRouteCache(rs)[n]]

\* await this.clearEdgeCache(...) is the last statement of the try block
\* of invalidateRouteCache, behind await Promise.all(deletePromises).
purgeAfterEviction(h, failed) == IF failed = {} THEN clearEdgeCache(h) ELSE <<>>

\* The guard under a set of ROUTE blobs whose delete fails.
checkBuildInvalidationIO(i, e, clock, meta, rs, h, failed) ==
  LET cur == CurrentBuildMeta(i, e, clock)
  IN IF meta = NoFile
     THEN [rs |-> rs, meta |-> cur, evicted |-> FALSE, edge |-> <<>>]
     ELSE IF NewBuildDetected(i, meta, cur)
     THEN [rs |-> invalidateRouteCacheIO(rs, failed), meta |-> cur, evicted |-> TRUE,
           edge |-> purgeAfterEviction(h, failed)]
     ELSE [rs |-> rs, meta |-> meta, evicted |-> FALSE, edge |-> <<>>]

checkBuildInvalidation(i, e, clock, meta, rs, h) ==
  checkBuildInvalidationIO(i, e, clock, meta, rs, h, {})

\* The constructor runs the guard when the process has not run it yet;
\* gcs-cache-handler.ts and part_008 also ask for a serving process.
RunsBuildCheck(i, checked, e) ==
  IF i = "file" THEN ~checked ELSE ~checked /\ ~isBuildPhase(e)

NotConstructed == [constructed |-> FALSE, edge |-> FALSE]

Live(store) == { n \in DOMAIN store : store[n] # NoFile }

\* The constructor that never asks for CACHE_BUCKET.
ConfigErrorNever(i, e) == FALSE

\* GcsCacheHandler: if (!bucketName) throw new Error(...), the first
\* statement after the log line.
ConfigError(i, e) == i = "gcs" /\ ~e.bucket

\* The constructor, with the deletes of the ROUTE blobs in failed rejected
\* should the guard evict.
ConstructIO(failed) ==
  LET threw == ConfigError(impl, env)
      h == [constructed |-> TRUE, edge |-> impl = "gcs" /\ env.edge]
      run == ~threw /\ RunsBuildCheck(impl, buildInvalidationChecked, env)
      r == checkBuildInvalidationIO(impl, env, now, buildMeta, routeStore, h, failed)
  IN /\ failed \subseteq Live(routeStore)
     /\ handler' = IF threw THEN handler ELSE h
     /\ tagsFile' = IF threw THEN tagsFile ELSE initializeTagsMapping(tagsFile)
     /\ routeStore' = IF run THEN r.rs ELSE routeStore
     /\ buildMeta' = IF run THEN r.meta ELSE buildMeta
     /\ buildInvalidationChecked' = (buildInvalidationChecked \/ run)
     /\ last' = [op |-> "construct", key |-> <<>>,
                 arg |-> [ran |-> run, phase |-> env.phase, prev |-> buildMeta,
                          cur |-> CurrentBuildMeta(impl, env, now).buildId],
                 ret |-> [evicted |-> run /\ r.evicted,
                          cleared |-> IF run /\ r.evicted
                                      THEN Cardinality(Live(routeStore)) ELSE 0,
                          threw |-> threw],
                 edge |-> IF run THEN r.edge ELSE <<>>, io |-> AllOk,
                 failed |-> IF run /\ r.evicted THEN failed ELSE {}]
     /\ decl' = [k \in DOMAIN decl |->
                   IF run /\ r.evicted /\ decl[k].st = "set"
                   THEN [decl[k] EXCEPT !.wiped = TRUE] ELSE decl[k]]
     /\ pending' = Started(pending, IF run THEN r.edge ELSE <<>>)
     /\ UNCHANGED <<fetchStore, impl, env, now, codecVars, tasks>>

\* The constructor on a store that carries out every delete.
Construct == ConstructIO({})

\* A deployment: the process ends and a new one starts, possibly on a new
\* build output.  The stored blobs stay.
Restart(e) ==
  /\ env' = e
  /\ buildInvalidationChecked' = FALSE
  /\ handler' = NotConstructed
  /\ last' = [NoOp EXCEPT !.op = "restart"]
  /\ pending' = [pending EXCEPT !.calls = <<>>, !.log = NoLog]
  /\ UNCHANGED <<storeVars, impl, now, decl, codecVars, tasks>>

-----------------------------------------------------------------------------
(* Handler operations.                                                     *)

MaxClock == 3

\* set under the backend outcomes o.
SetIO(cacheKey, v, tags, o) ==
  LET cacheType == CacheTypeOfValue(v)
      entry == [value |-> v, lastModified |-> now, tags |-> tags]
      r == setIO(fetchStore, routeStore, tagsFile, cacheKey, entry, o)
  IN /\ handler.constructed
     /\ now < MaxClock
     /\ fetchStore' = r.fs
     /\ routeStore' = r.rs
     /\ tagsFile' = r.tf
     /\ now' = now + 1
     /\ last' = [op |-> "set", key |-> cacheKey, arg |-> entry, ret |-> r.ret,
                 edge |-> <<>>, io |-> o]
     /\ decl' = IF o.blob = "ok"
                THEN [decl EXCEPT ![cacheKey] =
                        [st |-> "set", part |-> cacheType, val |-> v, tags |-> tags,
                         lm |-> now, hit |-> FALSE, wiped |-> FALSE]]
                ELSE decl
     /\ UNCHANGED <<buildMeta, impl, buildInvalidationChecked, handler, env, codecVars,
                    asyncVars>>

\* set on a backend that answers every call.
Set(cacheKey, v, tags) == SetIO(cacheKey, v, tags, AllOk)

\* The partition after a get that removed the blob it could not return.
storeAfterGetDropUnreadable(store, cacheKey, ret) ==
  IF ret = JNull THEN deleteCacheEntry(store, cacheKey) ELSE store

\* The partition after get: readCacheEntry asks exists() and download(),
\* or readFile, and get itself only logs; nothing is written or deleted.
storeAfterGet(store, cacheKey, ret) == store

\* get under outcome o of the backend read.
GetIO(cacheKey, ctx, o) ==
  LET cacheType == determineCacheType(ctx)
      ret == getIO(impl, fetchStore, routeStore, cacheKey, ctx, o)
  IN /\ handler.constructed
     /\ fetchStore' = IF cacheType = "fetch"
                      THEN storeAfterGet(fetchStore, cacheKey, ret) ELSE fetchStore
     /\ routeStore' = IF cacheType = "route"
                      THEN storeAfterGet(routeStore, cacheKey, ret) ELSE routeStore
     /\ last' = [op |-> "get", key |-> cacheKey, arg |-> ctx, ret |-> ret,
                 edge |-> <<>>, io |-> [read |-> o]]
     /\ UNCHANGED <<tagsFile, buildMeta, procVars, decl, codecVars, asyncVars>>

\* get on a backend that answers every call.
Get(cacheKey, ctx) == GetIO(cacheKey, ctx, "ok")

\* [tag].flat()
Flat(tag) == IF tag.t = "array" THEN tag.a ELSE <<tag.s>>

\* The keys the loops of revalidateTag visit, in order.
RECURSIVE KeysOfTags(_, _)
KeysOfTags(m, tagArray) ==
  IF tagArray = <<>> THEN <<>>
  ELSE (IF Head(tagArray) \in DOMAIN m THEN m[Head(tagArray)] ELSE <<>>)
       \o KeysOfTags(m, Tail(tagArray))

\* One round of the inner loop: the fetch blob is deleted, the route blob
\* only when the first delete raised; the key counts as deleted when a
\* delete returned.
RECURSIVE DeleteKeys(_, _)
DeleteKeys(st, keys) ==
  IF keys = <<>> THEN st
  ELSE LET cacheKey == Head(keys)
           fs1 == deleteCacheEntry(st.fs, cacheKey)
           deleted1 == ~DeleteCacheEntryThrows
           rs1 == IF ~deleted1 THEN deleteCacheEntry(st.rs, cacheKey) ELSE st.rs
           deleted == deleted1 \/ ~DeleteCacheEntryThrows
       IN DeleteKeys([fs |-> fs1, rs |-> rs1,
                      deletedKeys |-> IF deleted THEN Append(st.deletedKeys, cacheKey)
                                      ELSE st.deletedKeys],
                     Tail(keys))

isValidRoutePath(cacheKey) == Len(cacheKey) > 0 /\ cacheKey[1] \in {"/", "_"}

RoutePathOf(cacheKey) ==
  IF cacheKey[1] = "_"
  THEN [i \in 1..Len(cacheKey) |-> IF cacheKey[i] = "_" THEN "/" ELSE cacheKey[i]]
  ELSE cacheKey

\* The notifier calls of revalidateTag, were every deleted key handed on.
RevalidateEdgeCallsAllKeys(h, tagArray, deletedKeys) ==
  IF deletedKeys # <<>> /\ h.edge
  THEN <<[m |-> "clearKeys", a |-> tagArray], [m |-> "clearPaths", a |-> deletedKeys]>>
  ELSE <<>>

\* The notifier calls of revalidateTag.
RevalidateEdgeCalls(h, tagArray, deletedKeys) ==
  IF deletedKeys # <<>> /\ h.edge
  THEN LET valid == SelectSeq(deletedKeys, isValidRoutePath)
           routePaths == [i \in 1..Len(valid) |-> RoutePathOf(valid[i])]
       IN <<[m |-> "clearKeys", a |-> tagArray]>>
          \o (IF routePaths # <<>> THEN <<[m |-> "clearPaths", a |-> routePaths]>> ELSE <<>>)
  ELSE <<>>

\* How often revalidateTag writes the index: the one call of
\* updateTagsMappingBulkDelete stands behind the loops over the tags and
\* their keys, under if (deletedKeys.length > 0).
IndexWritesOf(deletedKeys) == IF deletedKeys # <<>> THEN 1 ELSE 0

\* The key has a blob in neither partition.
Blobless(fs, rs, cacheKey) ==
  fs[getCacheFilePath(cacheKey)] = NoFile /\ rs[getCacheFilePath(cacheKey)] = NoFile

RevalidateTag(tag) ==
  LET tagArray == Flat(tag)
      tagsMapping == readTagsMapping(tagsFile)
      r == DeleteKeys([fs |-> fetchStore, rs |-> routeStore, deletedKeys |-> <<>>],
                      KeysOfTags(tagsMapping, tagArray))
  IN /\ handler.constructed
     /\ fetchStore' = r.fs
     /\ routeStore' = r.rs
     /\ tagsFile' = IF r.deletedKeys # <<>>
                    THEN updateTagsMappingBulkDelete(tagsFile, r.deletedKeys) ELSE tagsFile
     /\ last' = [op |-> "revalidateTag", key |-> <<>>, arg |-> tag,
                 ret |-> r.deletedKeys,
                 edge |-> RevalidateEdgeCalls(handler, tagArray, r.deletedKeys),
                 io |-> AllOk,
                 indexWrites |-> IndexWritesOf(r.deletedKeys),
                 blobless |-> { k \in Range(KeysOfTags(tagsMapping, tagArray)) :
                                  Blobless(fetchStore, routeStore, k) }]
     /\ decl' = [k \in DOMAIN decl |->
                   IF decl[k].st = "set" /\ Range(tagArray) \cap Range(decl[k].tags) # {}
                   THEN [decl[k] EXCEPT !.hit = TRUE] ELSE decl[k]]
     /\ pending' = Started(pending, last'.edge)
     /\ UNCHANGED <<buildMeta, procVars, codecVars, tasks>>

\* getStaticRoutes: the blob names of the routes that are never revalidated.
StaticKeyOf(route) ==
  IF route = <<"/">> THEN <<"_", "i", "n", "d", "e", "x">>
  ELSE [i \in 1..Len(route) |-> IF route[i] = "/" THEN "_" ELSE route[i]]

getStaticRoutes(i, e) ==
  IF i = "file" THEN {} ELSE { StaticKeyOf(r) : r \in e.build.static }

\* clearSharedCache: every fetch blob, every route blob that is not a
\* static route, and the tag index file are deleted.
\* clearedCount, were the preserved static routes counted as well.
clearedCountWithStatic(fs, rs, staticRoutes) ==
  Cardinality(Live(fs)) + Cardinality(Live(rs))

\* clearedCount: the fetch blobs and the route blobs that are not static.
clearedCount(fs, rs, staticRoutes) ==
  Cardinality(Live(fs)) + Cardinality(Live(rs) \ staticRoutes)

\* Object names, segment by segment: the two partitions and the build
\* metadata record.
fetchCachePrefix == <<"fetch-cache">>
routeCachePrefix == <<"route-cache">>

\* The build metadata, were it kept among the blobs of the ROUTE partition.
buildMetaKeyInRouteCache == <<"route-cache", "build-meta.json">>

buildMetaKey == <<"build-meta.json">>

\* bucket.getFiles({prefix}) / readdir(dir): the names under a prefix.
HasPrefix(name, prefix) ==
  Len(name) >= Len(prefix) /\ SubSeq(name, 1, Len(prefix)) = prefix

\* The build metadata after every .json object under the two partition
\* prefixes was deleted.
SweepBuildMeta(meta) ==
  IF HasPrefix(buildMetaKey, fetchCachePrefix) \/ HasPrefix(buildMetaKey, routeCachePrefix)
  THEN NoFile ELSE meta

ClearSharedCache ==
  LET staticRoutes == getStaticRoutes(impl, env)
      off == ConfigError(impl, env)
      cleared == IF off THEN 0 ELSE clearedCount(fetchStore, routeStore, staticRoutes)
  IN /\ fetchStore' = IF off THEN fetchStore ELSE [n \in DOMAIN fetchStore |-> NoFile]
     /\ routeStore' = IF off THEN routeStore
                      ELSE [n \in DOMAIN routeStore |->
                              IF n \in staticRoutes THEN routeStore[n] ELSE NoFile]
     /\ tagsFile' = IF off THEN tagsFile ELSE NoFile
     /\ last' = [op |-> "clearSharedCache", key |-> <<>>, arg |-> [after |-> last.op],
                 ret |-> cleared,
                 edge |-> IF impl = "gcs" /\ cleared > 0 /\ env.edge
                          THEN <<NukeCall>> ELSE <<>>,
                 io |-> AllOk]
     /\ decl' = [k \in DOMAIN decl |->
                   IF ~off /\ decl[k].st = "set"
                   THEN [decl[k] EXCEPT !.wiped = TRUE] ELSE decl[k]]
     /\ pending' = Started(pending, last'.edge)
     /\ buildMeta' = IF off THEN buildMeta ELSE SweepBuildMeta(buildMeta)
     /\ UNCHANGED <<procVars, codecVars, tasks>>

\* A resetRequestCache that drops what the process has written.
resetRequestCacheWipes(fs, rs, tf, meta) ==
  [fs |-> [n \in DOMAIN fs |-> NoFile], rs |-> [n \in DOMAIN rs |-> NoFile],
   tf |-> NoFile, meta |-> NoFile]

\* resetRequestCache: one log line, nothing else.
resetRequestCache(fs, rs, tf, meta) == [fs |-> fs, rs |-> rs, tf |-> tf, meta |-> meta]

ResetRequestCache ==
  LET r == resetRequestCache(fetchStore, routeStore, tagsFile, buildMeta)
  IN /\ handler.constructed
     /\ fetchStore' = r.fs
     /\ routeStore' = r.rs
     /\ tagsFile' = r.tf
     /\ buildMeta' = r.meta
     /\ last' = [NoOp EXCEPT !.op = "resetRequestCache"]
     /\ UNCHANGED <<procVars, decl, codecVars, asyncVars>>

-----------------------------------------------------------------------------
(* The codec on its own: an entry is written to a blob and read back.      *)

Bytes1 == JBuf(<<104, 105>>)
Bytes2 == JBuf(<<0, 255, 16, 7>>)
Segments1 == JMap([a |-> Bytes1, b |-> Bytes2])
Segments2 == JMap([a |-> JStr("x"), b |-> Bytes1])

BodyShapes == {Undefined, Bytes1, Bytes2, JStr("W10=")}
RscShapes == {Undefined, Bytes2}
SegmentShapes == {Undefined, Segments1, Segments2}
DataShapes == {Undefined, JObj([body |-> JStr("W10=")]), JObj([body |-> Bytes1])}
BufferShapes == {Undefined, Bytes1}

Payloads ==
  { JObj(("kind" :> JStr("K")) @@ Opt("body", b) @@ Opt("rscData", r)
         @@ Opt("segmentData", sg) @@ Opt("data", d) @@ Opt("buffer", u)) :
      b \in BodyShapes, r \in RscShapes, sg \in SegmentShapes,
      d \in DataShapes, u \in BufferShapes }
  \cup { JStr("plain"), JNum(7), JNull }

NoEntry == [value |-> Undefined, lastModified |-> 0, tags |-> <<>>]

CodecEncode ==
  /\ cPc = "in"
  /\ cBlob' = BlobOf(cEntry)
  /\ cPc' = "stored"
  /\ UNCHANGED <<storeVars, procVars, last, decl, cEntry, cOut, asyncVars, memVars>>

CodecDecode ==
  /\ cPc = "stored"
  /\ cOut' = deserializeFromStorage(impl, cBlob)
  /\ cPc' = "out"
  /\ UNCHANGED <<storeVars, procVars, last, decl, cEntry, cBlob, asyncVars, memVars>>

-----------------------------------------------------------------------------
(* Specifications.                                                         *)

-----------------------------------------------------------------------------
(* MemoryCacheHandler and the CacheHandler of cache-handler.ts: a Map at   *)
(* module level, which get, set and revalidateTag of every instance use.   *)

Instances == {"a", "b"}
Holders == {"module"} \cup Instances

\* A Map over the keys; cache.get(key) of a key that is not in it is
\* undefined.
EmptyMap == [k \in Keys |-> Undefined]
NoCaches == [h \in Holders |-> EmptyMap]

\* A handler whose instances each had a Map of their own.
cacheOfInstance(inst) == inst

\* const cache = new Map() at module level; static cache = cache.
cacheOf(inst) == "module"

\* get: the stored wrapper, or null.
memGet(c, inst, key) ==
  LET entry == c[cacheOf(inst)][key]
  IN IF entry = Undefined THEN JNull ELSE entry

\* The loop of revalidateTag: every entry one of whose tags is among the
\* given ones is deleted.
memRevalidateTag(m, tagArray) ==
  [k \in DOMAIN m |->
     IF m[k] # Undefined /\ Range(m[k].tags) \cap Range(tagArray) # {}
     THEN Undefined ELSE m[k]]

MemOp(name, inst, key, arg, ret) ==
  [op |-> name, key |-> key, arg |-> arg, ret |-> ret, edge |-> <<>>, io |-> AllOk,
   inst |-> inst]

MemSet(inst, key, data, tags) ==
  /\ now < MaxClock
  /\ cache' = [cache EXCEPT ![cacheOf(inst)][key] =
                 [value |-> data, lastModified |-> now, tags |-> tags]]
  /\ now' = now + 1
  /\ last' = MemOp("set", inst, key, [value |-> data, tags |-> tags], Undefined)
  /\ UNCHANGED <<storeVars, impl, buildInvalidationChecked, handler, env, decl,
                 cEntry, cBlob, cOut, cPc, asyncVars>>

MemGet(inst, key) ==
  /\ last' = MemOp("get", inst, key, Undefined, memGet(cache, inst, key))
  /\ UNCHANGED <<storeVars, procVars, decl, codecVars, asyncVars>>

MemRevalidateTag(inst, tags) ==
  /\ cache' = [cache EXCEPT ![cacheOf(inst)] = memRevalidateTag(@, Flat(tags))]
  /\ last' = MemOp("revalidateTag", inst, <<>>, tags, Undefined)
  /\ UNCHANGED <<storeVars, procVars, decl, cEntry, cBlob, cOut, cPc, asyncVars>>

InitStore ==
  /\ fetchStore = [n \in BlobNames |-> NoFile]
  /\ routeStore = [n \in BlobNames |-> NoFile]
  /\ tagsFile = NoFile
  /\ buildMeta = NoFile
  /\ buildInvalidationChecked = FALSE
  /\ handler = NotConstructed
  /\ now = 1
  /\ last = NoOp
  /\ decl = [k \in Keys |-> NeverSet]

InitNoCodec ==
  /\ cEntry = NoEntry
  /\ cBlob = NoEntry
  /\ cOut = NoEntry
  /\ cPc = "off"
  /\ cache = NoCaches
  /\ tasks = NoTasks
  /\ pending = NotFollowed

\* One serving process on one build.
Init ==
  /\ impl \in Impls
  /\ env = ServingEnv
  /\ InitStore
  /\ InitNoCodec

Next ==
  \/ Construct
  \/ \E k \in Keys, v \in Values, tags \in TagLists : Set(k, v, tags)
  \/ \E k \in Keys, ctx \in Contexts : Get(k, ctx)
  \/ \E tag \in TagInputs : RevalidateTag(tag)
  \/ ClearSharedCache

Spec == Init /\ [][Next]_vars

\* Deployments: processes come and go over the same store.
BuildValues == {FetchValue, RouteValue}

InitBuild ==
  /\ impl \in Impls
  /\ env \in Envs
  /\ InitStore
  /\ InitNoCodec

NextBuild ==
  \/ Construct
  \/ \E e \in Envs : Restart(e)
  \/ \E k \in Keys, v \in BuildValues : Set(k, v, <<>>)

SpecBuild == InitBuild /\ [][NextBuild]_vars

\* The codec alone.
InitCodec ==
  /\ impl \in Impls
  /\ env = ServingEnv
  /\ InitStore
  /\ cEntry \in [value : Payloads, lastModified : {1}, tags : {<<>>, <<"T">>}]
  /\ cBlob = NoEntry
  /\ cOut = NoEntry
  /\ cPc = "in"
  /\ cache = NoCaches
  /\ tasks = NoTasks
  /\ pending = NotFollowed

NextCodec == CodecEncode \/ CodecDecode

SpecCodec == InitCodec /\ [][NextCodec]_vars

\* A backend that fails and a store that holds damaged blobs.  A stored
\* map envelope without its entries, one whose entries are null, and
\* content that is not JSON.
MapNoData ==
  [value |-> JObj([kind |-> JStr("APP_PAGE"),
                   segmentData |-> JObj([type |-> JStr("Map")])]),
   lastModified |-> 1, tags |-> <<>>]
MapNullData ==
  [value |-> JObj([kind |-> JStr("APP_PAGE"),
                   segmentData |-> JObj([type |-> JStr("Map"), data |-> JNull])]),
   lastModified |-> 1, tags |-> <<>>]
StoredShapes == {NoFile, Garbled, MapNoData, MapNullData}
IoContexts == {NoCtx, JObj([fetchIdx |-> JNum(1)])}
IoTagLists == {<<>>, <<"T">>}
DamagedName == getCacheFilePath(<<"/", "a">>)

InitIO ==
  /\ impl \in Impls
  /\ env = ServingEnv
  /\ fetchStore = [n \in BlobNames |-> NoFile]
  /\ \E blob \in StoredShapes :
       routeStore = [n \in BlobNames |-> IF n = DamagedName THEN blob ELSE NoFile]
  /\ tagsFile = NoFile
  /\ buildMeta = NoFile
  /\ buildInvalidationChecked = FALSE
  /\ handler = NotConstructed
  /\ now = 1
  /\ last = NoOp
  /\ decl = [k \in Keys |-> NeverSet]
  /\ InitNoCodec

NextIO ==
  \/ Construct
  \/ \E k \in Keys, v \in BuildValues, tags \in IoTagLists, o \in SetOutcomes :
       SetIO(k, v, tags, o)
  \/ \E k \in Keys, ctx \in IoContexts, o \in IoOutcomes : GetIO(k, ctx, o)

SpecIO == InitIO /\ [][NextIO]_vars

-----------------------------------------------------------------------------
(* EdgeCacheClear: the HTTP DELETE calls to the edge purge endpoint.       *)

\* What one fetch(url, {method: 'DELETE', signal}) ends as: a response
\* with an ok status, one with another status, a network error, or the
\* abort of the timeout.
HttpOutcomes == {"ok", "status", "network", "timeout"}

\* await fetch(...): the response, or the rejection.
DeleteResponse(o) ==
  IF o \in {"network", "timeout"} THEN Thrown
  ELSE [ok |-> o = "ok", status |-> IF o = "ok" THEN "2xx" ELSE "5xx"]

\* nukeCache without its catch clause.
nukeCacheRethrows(o) ==
  LET response == DeleteResponse(o)
  IN IF response = Thrown THEN Thrown
     ELSE IF ~response.ok
     THEN [success |-> FALSE, error |-> "HTTP", statusCode |-> response.status]
     ELSE [success |-> TRUE, statusCode |-> response.status]

nukeCache(o) ==
  LET response == DeleteResponse(o)
  IN Caught(IF response = Thrown THEN Thrown
            ELSE IF ~response.ok
            THEN [success |-> FALSE, error |-> "HTTP", statusCode |-> response.status]
            ELSE [success |-> TRUE, statusCode |-> response.status],
            [success |-> FALSE, error |-> "message"])

\* The body of the callback of keys.map / paths.map: one DELETE, its
\* outcome pushed onto results.
ClearOne(o) ==
  LET response == DeleteResponse(o)
  IN Caught(IF response = Thrown THEN Thrown ELSE [success |-> response.ok],
            [success |-> FALSE])

\* The result of clearKeys and of clearPaths over the outcomes os of the
\* DELETE calls, one per item (the cleared items are listed in the order
\* of the input here, in the order of completion in the code).
ClearEach(items, os) ==
  IF items = <<>> THEN [success |-> TRUE, paths |-> <<>>]
  ELSE LET results == [i \in DOMAIN items |-> ClearOne(os[i])]
           cleared == { i \in DOMAIN items : results[i] # Thrown /\ results[i].success }
           Pick(q, i) == IF i \in cleared THEN Append(q, items[i]) ELSE q
           Listed[i \in 0..Len(items)] == IF i = 0 THEN <<>> ELSE Pick(Listed[i - 1], i)
       IN Caught(IF \E i \in DOMAIN items : results[i] = Thrown THEN Thrown
                 ELSE [success |-> cleared # {}, paths |-> Listed[Len(items)]],
                 [success |-> FALSE, error |-> "message", paths |-> <<>>])

clearKeys(keys, os) == ClearEach(keys, os)
clearPaths(paths, os) == ClearEach(paths, os)

\* The result of a notifier call under the outcomes of its DELETE calls.
NotifierResult(call, os) ==
  IF call.m = "nukeCache" THEN nukeCache(os[1])
  ELSE IF call.m = "clearKeys" THEN clearKeys(call.a, os)
  ELSE clearPaths(call.a, os)

OutcomesOf(call) == [1..(IF Len(call.a) = 0 THEN 1 ELSE Len(call.a)) -> HttpOutcomes]

\* The caller's record of its operation, were the result of the
\* background call handed back to it.
SettledIntoCaller(l, result) ==
  IF result = Thrown \/ ~result.success THEN [l EXCEPT !.op = "rejected"] ELSE l

\* xInBackground: .then() logs the result, .catch() logs the error; the
\* operation that started the call has returned and sees neither.
Settled(l, result) == l

\* The i-th notifier call in flight settles.
NotifierSettles(i, os) ==
  /\ pending.on
  /\ i \in DOMAIN pending.calls
  /\ os \in OutcomesOf(pending.calls[i])
  /\ pending' = [pending EXCEPT
                   !.calls = SubSeq(pending.calls, 1, i - 1)
                             \o SubSeq(pending.calls, i + 1, Len(pending.calls)),
                   !.log = [call |-> pending.calls[i], os |-> os,
                            result |-> NotifierResult(pending.calls[i], os)]]
  /\ last' = Settled(last, NotifierResult(pending.calls[i], os))
  /\ UNCHANGED <<storeVars, procVars, decl, codecVars, tasks>>

\* The notifier on its own: one call, every outcome of its DELETE calls.
ItemLists == { <<>>, <<"T">>, <<"U">>, <<"T", "U">>, <<"U", "T">>, <<"T", "T">> }
NotifierCalls ==
  {NukeCall} \cup { [m |-> meth, a |-> items] : meth \in {"clearKeys", "clearPaths"},
                                                items \in ItemLists }

InitNotifier ==
  /\ impl = "gcs"
  /\ env = ServingEnv
  /\ InitStore
  /\ cEntry = NoEntry
  /\ cBlob = NoEntry
  /\ cOut = NoEntry
  /\ cPc = "off"
  /\ cache = NoCaches
  /\ tasks = NoTasks
  /\ \E call \in NotifierCalls : pending = [NoneInFlight EXCEPT !.calls = <<call>>]

NextNotifier == \E os \in UNION { OutcomesOf(call) : call \in NotifierCalls } : NotifierSettles(1, os)

SpecNotifier == InitNotifier /\ [][NextNotifier]_vars

\* A remote-storage process with its notifier calls in flight.
MaxInFlight == 1
EdgeEnvs ==
  [phase : {"phase-production-server"}, build : {Build1, Build2}, edge : BOOLEAN,
   bucket : BOOLEAN]

InitEdge ==
  /\ impl = "gcs"
  /\ env \in EdgeEnvs
  /\ InitStore
  /\ cEntry = NoEntry
  /\ cBlob = NoEntry
  /\ cOut = NoEntry
  /\ cPc = "off"
  /\ cache = NoCaches
  /\ tasks = NoTasks
  /\ pending = NoneInFlight

NextEdge ==
  \/ Len(pending.calls) < MaxInFlight /\ Construct
  \/ \E e \in EdgeEnvs : Restart(e)
  \/ \E k \in Keys, v \in BuildValues : Set(k, v, <<"T">>)
  \/ Len(pending.calls) < MaxInFlight /\ RevalidateTag(JStr("T"))
  \/ Len(pending.calls) < MaxInFlight /\ ClearSharedCache
  \/ ResetRequestCache
  \/ \E i \in DOMAIN pending.calls :
       \E os \in OutcomesOf(pending.calls[i]) : NotifierSettles(i, os)

SpecEdge == InitEdge /\ [][NextEdge]_vars

-----------------------------------------------------------------------------
(* set, await by await.  GcsCacheHandler awaits the blob write, the index  *)
(* read and the index write one after the other, so the calls of other     *)
(* requests run in between.  The file handlers await the blob write        *)
(* (fs.writeFile opens the file with O_TRUNC and then writes the text) and *)
(* update the index with synchronous calls.                                *)

RaceValues == {RouteValue, ImageValue}
RaceTags == {<<"T">>}

\* The mapping written back, were it merged into the index as it is at
\* the time of the write.
IndexWriteBackMerged(local, current, cacheKey, tags) == AddKeyToTags(current, cacheKey, tags)

\* The mapping updateTagsMapping writes back: the one it read, plus its key.
IndexWriteBack(local, current, cacheKey, tags) == AddKeyToTags(local, cacheKey, tags)

Step(t, name) ==
  [op |-> name, key |-> tasks[t].key, arg |-> tasks[t].entry, ret |-> Undefined,
   edge |-> <<>>, io |-> AllOk]

SetStart(t, cacheKey, v, tags) ==
  LET entry == [value |-> v, lastModified |-> now, tags |-> tags]
  IN /\ handler.constructed
     /\ tasks[t].pc = "idle"
     /\ now < MaxClock
     /\ tasks' = [tasks EXCEPT ![t] = [pc |-> "write", key |-> cacheKey, entry |-> entry,
                                       part |-> CacheTypeOfValue(v),
                                       local |-> EmptyMapping]]
     /\ now' = now + 1
     /\ last' = [op |-> "setStart", key |-> cacheKey, arg |-> entry, ret |-> Undefined,
                 edge |-> <<>>, io |-> AllOk]
     /\ decl' = [decl EXCEPT ![cacheKey] =
                   [st |-> "set", part |-> CacheTypeOfValue(v), val |-> v, tags |-> tags,
                    lm |-> now, hit |-> FALSE, wiped |-> FALSE]]
     /\ UNCHANGED <<storeVars, impl, buildInvalidationChecked, handler, env, codecVars,
                    pending>>

PutBlob(t, blob) ==
  /\ fetchStore' = IF tasks[t].part = "fetch"
                   THEN [fetchStore EXCEPT ![getCacheFilePath(tasks[t].key)] = blob]
                   ELSE fetchStore
  /\ routeStore' = IF tasks[t].part = "route"
                   THEN [routeStore EXCEPT ![getCacheFilePath(tasks[t].key)] = blob]
                   ELSE routeStore

\* set, were the index updated after every blob write.
AfterWriteAlways(t) == "index"

\* if (tags.length > 0) await this.updateTagsMapping(cacheKey, tags)
AfterWrite(t) == IF Len(tasks[t].entry.tags) > 0 THEN "index" ELSE "done"

\* fs.writeFile, first half: the file is opened and truncated.
SetOpen(t) ==
  /\ impl # "gcs"
  /\ tasks[t].pc = "write"
  /\ PutBlob(t, Garbled)
  /\ tasks' = [tasks EXCEPT ![t].pc = "opened"]
  /\ last' = Step(t, "setOpen")
  /\ UNCHANGED <<tagsFile, buildMeta, procVars, decl, codecVars, pending>>

\* fs.writeFile, second half: the text is written from offset 0.  Over a
\* text that another writer put there since the truncation, the file
\* ends as this text or, when the other text is longer, as this text
\* followed by the tail of the other, which does not parse.
SetWriteFile(t) ==
  /\ impl # "gcs"
  /\ tasks[t].pc = "opened"
  /\ \E torn \in IF Partition(fetchStore, routeStore, tasks[t].part)
                        [getCacheFilePath(tasks[t].key)] = Garbled
                  THEN {FALSE} ELSE BOOLEAN :
       PutBlob(t, IF torn THEN Garbled ELSE BlobOf(tasks[t].entry))
  /\ tasks' = [tasks EXCEPT ![t].pc = AfterWrite(t)]
  /\ last' = Step(t, "setWrite")
  /\ UNCHANGED <<tagsFile, buildMeta, procVars, decl, codecVars, pending>>

\* file.save: the object is replaced as a whole.
SetWriteObject(t) ==
  /\ impl = "gcs"
  /\ tasks[t].pc = "write"
  /\ PutBlob(t, BlobOf(tasks[t].entry))
  /\ tasks' = [tasks EXCEPT ![t].pc = AfterWrite(t)]
  /\ last' = Step(t, "setWrite")
  /\ UNCHANGED <<tagsFile, buildMeta, procVars, decl, codecVars, pending>>

\* updateTagsMapping, were its read and its write awaited by every handler.
IndexIsAwaitedEverywhere(i) == TRUE

\* GcsCacheHandler.updateTagsMapping awaits readTagsMapping() and
\* writeTagsMapping(); updateTagsMapping of the file handlers is not async
\* and calls fs.readFileSync and fs.writeFileSync.
IndexIsAwaited(i) == i = "gcs"

\* await this.readTagsMapping()
SetIndexRead(t) ==
  /\ IndexIsAwaited(impl)
  /\ tasks[t].pc = "index"
  /\ tasks' = [tasks EXCEPT ![t].pc = "indexWrite", ![t].local = readTagsMapping(tagsFile)]
  /\ last' = Step(t, "setIndexRead")
  /\ UNCHANGED <<storeVars, procVars, decl, codecVars, pending>>

\* await this.writeTagsMapping(tagsMapping)
SetIndexWrite(t) ==
  /\ IndexIsAwaited(impl)
  /\ tasks[t].pc = "indexWrite"
  /\ tagsFile' = writeTagsMapping(IndexWriteBack(tasks[t].local, readTagsMapping(tagsFile),
                                                 tasks[t].key, tasks[t].entry.tags))
  /\ tasks' = [tasks EXCEPT ![t].pc = "done"]
  /\ last' = Step(t, "setIndexWrite")
  /\ UNCHANGED <<fetchStore, routeStore, buildMeta, procVars, decl, codecVars, pending>>

\* this.updateTagsMapping(cacheKey, tags) of the file handlers: read and
\* write in one synchronous call.
SetIndexSync(t) ==
  /\ ~IndexIsAwaited(impl)
  /\ tasks[t].pc = "index"
  /\ tagsFile' = updateTagsMapping(tagsFile, tasks[t].key, tasks[t].entry.tags)
  /\ tasks' = [tasks EXCEPT ![t].pc = "done", ![t].local = readTagsMapping(tagsFile)]
  /\ last' = Step(t, "setIndexWrite")
  /\ UNCHANGED <<fetchStore, routeStore, buildMeta, procVars, decl, codecVars, pending>>

AllDone == \A t \in TaskIds : tasks[t].pc = "done"

InitRace ==
  /\ impl \in Impls
  /\ env = ServingEnv
  /\ InitStore
  /\ InitNoCodec

NextRace ==
  \/ Construct
  \/ \E t \in TaskIds, k \in Keys, v \in RaceValues, tags \in RaceTags : SetStart(t, k, v, tags)
  \/ \E t \in TaskIds : SetOpen(t)
  \/ \E t \in TaskIds : SetWriteFile(t)
  \/ \E t \in TaskIds : SetWriteObject(t)
  \/ \E t \in TaskIds : SetIndexRead(t)
  \/ \E t \in TaskIds : SetIndexWrite(t)
  \/ \E t \in TaskIds : SetIndexSync(t)
  \/ \E k \in Keys : Get(k, NoCtx)
  \/ AllDone /\ RevalidateTag(JStr("T"))

SpecRace == InitRace /\ [][NextRace]_vars

-----------------------------------------------------------------------------
(* Properties.                                                             *)

Serving == "phase-production-server"
DeclaredEntry(k) == [value |-> decl[k].val, lastModified |-> decl[k].lm, tags |-> decl[k].tags]
StoredBlob(k, part) == Partition(fetchStore, routeStore, part)[getCacheFilePath(k)]
\* The most recent set of k is still in force: no revalidateTag of one of
\* its tags, no eviction and no clear since.
InForce(k) == decl[k].st = "set" /\ ~decl[k].hit /\ ~decl[k].wiped
IndexLists(k, tag) ==
  LET m == readTagsMapping(tagsFile)
  IN tag \in DOMAIN m /\ k \in Range(m[tag])

\* C1: once a revalidateTag has named a tag that the most recent set of a
\* key declared, get of that key under the hint of its partition returns
\* absent, for entries of the FETCH and of the ROUTE partition alike.
C1_Completeness ==
  \A k \in Keys :
    (decl[k].st = "set" /\ decl[k].hit) => CacheGet(k, HintOf(decl[k].part)) = JNull

\* C2: revalidateTag removes no entry whose most recent set declared none
\* of the revalidated tags: after revalidateTag such an entry is still
\* stored as it was written, also when an earlier set of the same key had
\* declared a revalidated tag.
C2_Precision ==
  last.op = "revalidateTag" =>
    \A k \in Keys : InForce(k) => StoredBlob(k, decl[k].part) = BlobOf(DeclaredEntry(k))

\* C3: between operations the tag index lists key k under tag T if and
\* only if the most recent set of k, still in force, declared T.
C3_IndexInvariant ==
  \A k \in Keys, tag \in Tags :
    IndexLists(k, tag) <=> (InForce(k) /\ tag \in Range(decl[k].tags))

\* C4: get of a key that was never set returns absent under every hint;
\* while the most recent set(k, v, tags) is in force, get under the hint of
\* v's partition returns an entry with value v and the supplied tags.
C4_MissThenHit ==
  \A k \in Keys :
    /\ decl[k].st = "never" => \A ctx \in Contexts : CacheGet(k, ctx) = JNull
    /\ InForce(k) =>
         LET e == CacheGet(k, HintOf(decl[k].part))
         IN e # JNull /\ e.value = decl[k].val /\ e.tags = decl[k].tags

\* C5: an entry written to a blob and read back is equal to the entry,
\* for payloads with bytes at the top level, inside nested objects and
\* inside maps, and for plain values.
C5_RoundTrip == cPc = "out" => cOut = cEntry

\* C6: no key has a live entry in both partitions at once.
C6_SinglePartition ==
  \A k \in Keys :
    ~(StoredBlob(k, "fetch") # NoFile /\ StoredBlob(k, "route") # NoFile)

\* The caller-context signals of a fetch lookup.
FetchMarker(ctx) ==
  /\ ctx.t = "object"
  /\ \/ "fetchCache" \in DOMAIN ctx.f /\ ctx.f.fetchCache = TRUE
     \/ "fetchUrl" \in DOMAIN ctx.f
     \/ "fetchIdx" \in DOMAIN ctx.f

Decoded(blob) ==
  IF blob = NoFile \/ deserializeFromStorage(impl, blob) = Thrown THEN JNull
  ELSE deserializeFromStorage(impl, blob)

\* C7: get answers from the FETCH partition when its context carries a
\* fetch marker and from the ROUTE partition otherwise (also without a
\* context), and from that partition only: it returns absent when that
\* partition has no blob for the key, whatever the other partition holds.
C7_PartitionScopedGet ==
  last.op = "get" =>
    last.ret = Decoded(StoredBlob(last.key,
                                  IF FetchMarker(last.arg) THEN "fetch" ELSE "route"))

\* A get with a fetch marker that found nothing while the ROUTE partition
\* holds an entry for the key.
C7_Witness ==
  /\ last.op = "get"
  /\ FetchMarker(last.arg)
  /\ "fetchIdx" \in DOMAIN last.arg.f
  /\ last.ret = JNull
  /\ StoredBlob(last.key, "route") # NoFile

\* A construction that ran the build guard against persisted metadata
\* naming another build identity than the current one.
IdentityDiffers ==
  /\ last'.op = "construct"
  /\ last'.arg.ran
  /\ last'.arg.phase = Serving
  /\ buildMeta # NoFile
  /\ buildMeta.buildId # last'.arg.cur

RouteEvictedFetchKept ==
  /\ \A n \in BlobNames : routeStore'[n] = NoFile
  /\ fetchStore' = fetchStore

C9_NoChangeCases ==
  [][(last'.op = "construct" /\ last'.arg.ran) =>
       /\ buildMeta = NoFile =>
            /\ buildMeta' # NoFile
            /\ buildMeta'.buildId = last'.arg.cur
            /\ routeStore' = routeStore
            /\ fetchStore' = fetchStore
       /\ (buildMeta # NoFile /\ buildMeta.buildId = last'.arg.cur) =>
            /\ buildMeta' = buildMeta
            /\ routeStore' = routeStore
            /\ fetchStore' = fetchStore
            /\ last'.edge = <<>>]_vars

\* A build check on an unchanged build, with ROUTE entries stored and a
\* notifier configured.
C9_Witness ==
  /\ last.op = "construct"
  /\ last.arg.ran
  /\ last.arg.prev # NoFile
  /\ last.arg.prev.buildId = last.arg.cur
  /\ Live(routeStore) # {}
  /\ handler.edge

\* C10: a construction starts the build check only when the process has
\* not started it before and only outside the build phase; a construction
\* in the build phase leaves the build metadata and the ROUTE partition
\* alone.
C10_OncePerProcess ==
  [][last'.op = "construct" =>
       /\ last'.arg.ran => (~buildInvalidationChecked /\ last'.arg.phase = Serving)
       /\ last'.arg.phase # Serving => (buildMeta' = buildMeta /\ routeStore' = routeStore)]_vars

-----------------------------------------------------------------------------
(* Full clear.                                                             *)

\* The StaticRouteSet of the running build, as blob names.
ManifestStatic == { StaticKeyOf(r) : r \in env.build.static }

\* C11: a full clear deletes every FETCH entry and every ROUTE entry whose
\* key is not in the StaticRouteSet, and leaves the ROUTE entries whose key
\* is in the StaticRouteSet present and unchanged.
C11_StaticRoutePreservation ==
  [][last'.op = "clearSharedCache" =>
       /\ \A n \in BlobNames : fetchStore'[n] = NoFile
       /\ \A n \in BlobNames :
            routeStore'[n] = IF n \in ManifestStatic THEN routeStore[n] ELSE NoFile]_vars

\* The blobs of a partition that a step removed.
Removed(store, storeAfter) == { n \in BlobNames : store[n] # NoFile /\ storeAfter[n] = NoFile }

-----------------------------------------------------------------------------
(* Failing backends.                                                       *)

\* C13: set completes normally, without raising, for every key, value and
\* tag list and for every outcome (success or I/O error) of the blob
\* write, of the index read and of the index write.
C13_SetNeverFails == last.op = "set" => last.ret = Undefined

\* A set with tags whose blob write, index read and index write all
\* failed, and that returned.
C13_Witness ==
  /\ last.op = "set"
  /\ last.io = [blob |-> "error", indexRead |-> "error", indexWrite |-> "error"]
  /\ Len(last.arg.tags) > 0
  /\ last.ret = Undefined

\* The blob a get reads fails to be read: the read raised, the blob is
\* missing, its content does not parse, or it does not decode.
ReadFails(cacheKey, ctx, o) ==
  LET blob == StoredBlob(cacheKey, determineCacheType(ctx))
  IN \/ o = "error"
     \/ blob = NoFile
     \/ blob = Garbled
     \/ deserializeFromStorage(impl, blob) = Thrown

-----------------------------------------------------------------------------
(* Concurrent calls.                                                       *)

TaskBlob(t) == StoredBlob(tasks[t].key, tasks[t].part)
Untouched == \A t \in TaskIds : ~decl[tasks[t].key].hit

\* Two finished sets that added different keys under tag T and read the
\* same prior index.
BothReadSameIndex ==
  /\ AllDone
  /\ tasks[1].key # tasks[2].key
  /\ \A t \in TaskIds : "T" \in Range(tasks[t].entry.tags)
  /\ tasks[1].local = tasks[2].local

\* C15: when two concurrent sets add different keys under the same tag
\* and both read the same prior index, the index lists exactly one of the
\* two keys under the tag while both entries are stored, and a later
\* revalidateTag of the tag leaves the entry of the dropped key stored and
\* does not report its key.
C15_TagIndexRace ==
  /\ [](BothReadSameIndex /\ Untouched =>
          /\ Cardinality({t \in TaskIds : IndexLists(tasks[t].key, "T")}) = 1
          /\ \A t \in TaskIds : TaskBlob(t) = BlobOf(tasks[t].entry))
  /\ [][(BothReadSameIndex /\ Untouched /\ last'.op = "revalidateTag") =>
          \E t \in TaskIds :
            /\ tasks[t].key \notin Range(last'.ret)
            /\ TaskBlob(t)' = BlobOf(tasks[t].entry)]_vars

\* After such a race a revalidateTag of the tag has deleted one entry and
\* the entry of the other key is still stored.
C15_Witness ==
  /\ BothReadSameIndex
  /\ last.op = "revalidateTag"
  /\ Len(last.ret) = 1
  /\ \E t \in TaskIds :
       /\ tasks[t].key \notin Range(last.ret)
       /\ TaskBlob(t) = BlobOf(tasks[t].entry)

\* The blob write of a set call has returned.
Landed(t) == tasks[t].pc \in {"index", "indexWrite", "done"}

\* C16: after concurrent sets of one key with values of one partition the
\* stored entry is the entry of one of them, and a get of the key that
\* runs once a blob write has landed returns the complete entry of one of
\* the sets, never an absent or mixed one.
C16_SameKeyWriteRace ==
  /\ (AllDone /\ tasks[1].key = tasks[2].key /\ tasks[1].part = tasks[2].part /\ Untouched)
       => \E t \in TaskIds : TaskBlob(t) = BlobOf(tasks[t].entry)
  /\ (/\ last.op = "get"
      /\ ~decl[last.key].hit
      /\ \E t \in TaskIds : Landed(t) /\ tasks[t].key = last.key)
       => \E t \in TaskIds :
            /\ tasks[t].pc # "idle"
            /\ tasks[t].key = last.key
            /\ last.ret = deserializeFromStorage(impl, BlobOf(tasks[t].entry))

-----------------------------------------------------------------------------
(* The edge notifier.                                                      *)

\* A clearKeys or clearPaths call of no item: it issues no DELETE.
EmptyCalls == { [m |-> meth, a |-> <<>>] : meth \in {"clearKeys", "clearPaths"} }

\* C20: nukeCache, clearKeys and clearPaths return a result record with a
\* success flag for every outcome of their HTTP DELETE calls (ok status,
\* other status, network error, timeout abort) and never throw.
C20_ErrorsAsValues ==
  pending.log # NoLog =>
    /\ pending.log.result # Thrown
    /\ "success" \in DOMAIN pending.log.result
    /\ pending.log.result.success \in BOOLEAN
    /\ (pending.log.result.success /\ pending.log.call \notin EmptyCalls) =>
         \E i \in DOMAIN pending.log.os : pending.log.os[i] = "ok"

\* A clearKeys call of two keys whose DELETE calls ended in a network
\* error and in a timeout, and that returned a failure record.
C20_Witness ==
  /\ pending.log # NoLog
  /\ pending.log.call.m = "clearKeys"
  /\ pending.log.os = <<"network", "timeout">>
  /\ pending.log.result.success = FALSE

\* A step that takes a notifier call out of the calls in flight.
CallSettled == Len(pending'.calls) < Len(pending.calls)

\* The operations that start notifier calls.
Notifying == {"revalidateTag", "construct", "clearSharedCache"}

\* C17: revalidateTag, build invalidation and full clear have completed,
\* with their result and their store state, while the notifier calls they
\* started are still in flight; when such a call settles, with whatever
\* outcome, the store and the result of the operation stay as they were.
C17_FireAndForget ==
  [][/\ (last'.op \in Notifying /\ ~CallSettled) =>
          pending'.calls = pending.calls \o last'.edge
     /\ (CallSettled /\ last'.op # "restart") =>
          /\ last'.op = last.op
          /\ last'.key = last.key
          /\ last'.edge = last.edge
          /\ last'.arg = last.arg
          /\ last'.ret = last.ret
          /\ UNCHANGED <<storeVars, procVars, decl>>]_vars

\* A revalidateTag that deleted an entry has returned, and a notifier
\* call it started has since ended in a timeout while the other is still
\* in flight.
C17_Witness ==
  /\ last.op = "revalidateTag"
  /\ last.ret # <<>>
  /\ Len(last.edge) = 2
  /\ Len(pending.calls) = 1
  /\ pending.log # NoLog
  /\ pending.log.os[1] = "timeout"
  /\ pending.log.result.success = FALSE

\* C18: constructing the remote-storage handler without a configured
\* bucket throws before any side effect: the tag index, the build
\* metadata and both partitions stay as they were, the already-checked
\* flag stays as it was, no handler instance results and no notifier call
\* is started.
C18_ConfigErrorFatal ==
  [][(last'.op = "construct" /\ ~CallSettled /\ impl = "gcs" /\ ~env.bucket) =>
       /\ last'.ret.threw
       /\ ~last'.arg.ran
       /\ last'.edge = <<>>
       /\ UNCHANGED <<storeVars, buildInvalidationChecked, handler, pending>>]_vars

\* A construction without a bucket that threw in a process that has not
\* run the build check, over a store without tag index and metadata.
C18_Witness ==
  /\ last.op = "construct"
  /\ last.ret.threw
  /\ ~env.bucket
  /\ ~buildInvalidationChecked
  /\ ~handler.constructed
  /\ tagsFile = NoFile
  /\ buildMeta = NoFile

\* The build check of the same construction with the notifier
\* configuration inverted.
TwinBuildCheck ==
  checkBuildInvalidation(impl, [env EXCEPT !.edge = ~env.edge], now, buildMeta, routeStore,
                         [constructed |-> TRUE, edge |-> ~handler'.edge])

\* C19: without a configured edge-purge endpoint no operation starts a
\* notifier call, and construction, revalidateTag and full clear change
\* the store and return as they do with the endpoint configured.
C19_NotifierOptional ==
  [][/\ ~env'.edge => (last'.edge = <<>> /\ pending'.calls = <<>>)
     /\ (last'.op = "construct" /\ ~CallSettled /\ last'.arg.ran) =>
          /\ routeStore' = TwinBuildCheck.rs
          /\ buildMeta' = TwinBuildCheck.meta
          /\ last'.ret.evicted = TwinBuildCheck.evicted
     /\ (last'.op = "revalidateTag" /\ ~CallSettled) =>
          LET r == DeleteKeys([fs |-> fetchStore, rs |-> routeStore, deletedKeys |-> <<>>],
                              KeysOfTags(readTagsMapping(tagsFile), Flat(last'.arg)))
          IN fetchStore' = r.fs /\ routeStore' = r.rs /\ last'.ret = r.deletedKeys
     /\ (last'.op = "clearSharedCache" /\ ~CallSettled /\ env.bucket) =>
          /\ Live(fetchStore') = {}
          /\ last'.ret = Cardinality(Removed(fetchStore, fetchStore'))
                         + Cardinality(Removed(routeStore, routeStore'))]_vars

\* Without an endpoint: a build invalidation evicted ROUTE entries and
\* started no notifier call.
C19_Witness ==
  /\ ~env.edge
  /\ last.op = "construct"
  /\ last.ret.evicted
  /\ last.ret.cleared > 0
  /\ last.edge = <<>>
  /\ pending.calls = <<>>

-----------------------------------------------------------------------------
(* One notifier call, DELETE by DELETE.  Every fetch is started with the   *)
(* signal of an AbortController of its own and a setTimeout that aborts    *)
(* it; the callbacks of paths.map run side by side under Promise.all.      *)

\* The number of DELETE requests a call sends.
DeletesOf(call) == IF call.m = "nukeCache" THEN 1 ELSE Len(call.a)

Fetching == [pc |-> "fetch"]

\* A timer whose callback does not abort the request.
abortNever(task) == task

\* setTimeout(() => controller.abort(), ms): the pending fetch rejects
\* with the abort error.
abort(task) == [pc |-> "settled", o |-> "timeout"]

\* The endpoint answers the t-th DELETE, or the connection fails.
Responds(t, o) ==
  /\ tasks[t] = Fetching
  /\ o \in HttpOutcomes \ {"timeout"}
  /\ tasks' = [tasks EXCEPT ![t] = [pc |-> "settled", o |-> o]]
  /\ UNCHANGED <<storeVars, procVars, last, decl, codecVars, pending>>

\* The timer of the t-th DELETE fires before any answer.
TimerFires(t) ==
  /\ tasks[t] = Fetching
  /\ tasks' = [tasks EXCEPT ![t] = abort(tasks[t])]
  /\ UNCHANGED <<storeVars, procVars, last, decl, codecVars, pending>>

\* await fetch / await Promise.all(clearPromises) resumes once every
\* DELETE of the call has settled, and the call returns its result.
NotifierReturns ==
  /\ pending.calls # <<>>
  /\ \A t \in TaskIds : tasks[t] # Fetching
  /\ LET n == DeletesOf(pending.calls[1])
         os == [i \in 1..(IF n = 0 THEN 1 ELSE n) |->
                  IF n = 0 THEN "ok" ELSE tasks[i].o]
     IN NotifierSettles(1, os)

InitTimeout ==
  /\ impl = "gcs"
  /\ env = ServingEnv
  /\ InitStore
  /\ cEntry = NoEntry
  /\ cBlob = NoEntry
  /\ cOut = NoEntry
  /\ cPc = "off"
  /\ cache = NoCaches
  /\ \E call \in NotifierCalls :
       /\ pending = [NoneInFlight EXCEPT !.calls = <<call>>]
       /\ tasks = [t \in TaskIds |-> IF t <= DeletesOf(call) THEN Fetching ELSE Idle]

NextTimeout ==
  \/ \E t \in TaskIds, o \in HttpOutcomes : Responds(t, o)
  \/ \E t \in TaskIds : TimerFires(t)
  \/ NotifierReturns

\* The event loop runs a timer that is due and resumes an await whose
\* promise has settled; nothing makes the endpoint answer.
SpecTimeout ==
  /\ InitTimeout
  /\ [][NextTimeout]_vars
  /\ \A t \in TaskIds : WF_vars(TimerFires(t))
  /\ WF_vars(NotifierReturns)

\* C21: every notifier call returns in the end, whatever the endpoint
\* does: each DELETE has a timer of its own, a DELETE that gets no answer
\* is aborted by it and counts as a failure in the result of its call, and
\* the timers of the other DELETEs of the call are not held up by it.
TimedOutFails ==
  pending.log # NoLog =>
    LET call == pending.log.call
        os == pending.log.os
        result == pending.log.result
    IN /\ result # Thrown
       /\ call.m = "nukeCache" /\ os[1] = "timeout" => ~result.success
       /\ call.m # "nukeCache" =>
            \A i \in 1..Len(call.a) :
              os[i] = "timeout" /\ (\A j \in 1..Len(call.a) : call.a[j] = call.a[i] => os[j] # "ok")
                => \A j \in DOMAIN result.paths : result.paths[j] # call.a[i]
RevalidateStep == last'.op = "revalidateTag" /\ ~CallSettled

\* C22: revalidateTag of a tag under which the index lists a key that has
\* a blob in neither partition completes without an error, counts the key
\* among the deleted ones and removes it from the index under every tag.
C22_MissingBlobTolerated ==
  [][\A k \in Keys :
       (/\ RevalidateStep
        /\ Blobless(fetchStore, routeStore, k)
        /\ \E tag \in Range(Flat(last'.arg)) : IndexLists(k, tag))
       => /\ k \in Range(last'.ret)
          /\ \A tag \in Tags : ~IndexLists(k, tag)']_vars

\* revalidateTag has just met an indexed key without a blob.
C22_Witness ==
  /\ last.op = "revalidateTag"
  /\ \E k \in last.blobless :
       /\ k \in Range(last.ret)
       /\ \A tag \in Tags : ~IndexLists(k, tag)

\* C23: a revalidateTag that deleted a non-empty set D of keys writes the
\* index once, after the loops over all tags: no key of D is left under
\* any tag, revalidated or not, a tag whose list became empty is gone, and
\* every other list keeps its other keys in their order.  A revalidateTag
\* that deleted nothing leaves the index file as it was.
C23_BulkIndexRewrite ==
  [][RevalidateStep =>
       LET D == Range(last'.ret)
           m == readTagsMapping(tagsFile)
           after == readTagsMapping(tagsFile')
           Kept(tag) == SelectSeq(m[tag], LAMBDA k : k \notin D)
       IN IF D = {}
          THEN last'.indexWrites = 0 /\ tagsFile' = tagsFile
          ELSE /\ last'.indexWrites = 1
               /\ tagsFile' # NoFile
               /\ DOMAIN after \subseteq DOMAIN m
               /\ \A tag \in DOMAIN after :
                    after[tag] # <<>> /\ Range(after[tag]) \cap D = {}
               /\ \A tag \in DOMAIN m :
                    IF Kept(tag) = <<>> THEN tag \notin DOMAIN after
                    ELSE tag \in DOMAIN after /\ after[tag] = Kept(tag)]_vars

\* revalidateTag of one tag has deleted a key that was set under a second
\* tag as well; the key has left the list of the second tag, which keeps
\* another key, and the revalidated tag, its list emptied, has left the
\* index.
C23_Witness ==
  /\ last.op = "revalidateTag"
  /\ last.arg = JStr("T")
  /\ "T" \notin DOMAIN readTagsMapping(tagsFile)
  /\ \E k \in Range(last.ret), k2 \in Keys :
       /\ k2 # k
       /\ decl[k].st = "set"
       /\ decl[k].tags = <<"T", "U">>
       /\ ~IndexLists(k, "U")
       /\ IndexLists(k2, "U")

-----------------------------------------------------------------------------
(* initializeTagsMapping, await by await.  Every constructor call starts   *)
(* it; GcsCacheHandler does not await it (this.initializeTagsMapping()     *)
(* .catch(() => {})), and inside it file.exists() and file.save('{}') are  *)
(* two awaits, so the index writes of set calls run in between.  The file  *)
(* handlers test and create the file with synchronous calls.               *)

InitStep(name) ==
  [op |-> name, key |-> <<>>, arg |-> Undefined, ret |-> Undefined, edge |-> <<>>,
   io |-> AllOk]

\* new Handler() in a process whose build guard has run: the constructor
\* sets its fields and starts initializeTagsMapping.
InitializerStart(t) ==
  /\ handler.constructed
  /\ buildInvalidationChecked
  /\ tasks[t].pc = "idle"
  /\ tasks' = [tasks EXCEPT ![t] = [pc |-> "initExists"]]
  /\ last' = InitStep("initStart")
  /\ UNCHANGED <<storeVars, procVars, decl, codecVars, pending>>

\* const [exists] = await file.exists()
InitExists(t) ==
  /\ impl = "gcs"
  /\ tasks[t].pc = "initExists"
  /\ tasks' = [tasks EXCEPT ![t].pc = IF tagsFile # NoFile THEN "done" ELSE "initSave"]
  /\ last' = InitStep("initExists")
  /\ UNCHANGED <<storeVars, procVars, decl, codecVars, pending>>

\* await file.save(JSON.stringify({}))
InitSave(t) ==
  /\ impl = "gcs"
  /\ tasks[t].pc = "initSave"
  /\ tagsFile' = writeTagsMapping(EmptyMapping)
  /\ tasks' = [tasks EXCEPT ![t].pc = "done"]
  /\ last' = InitStep("initSave")
  /\ UNCHANGED <<fetchStore, routeStore, buildMeta, procVars, decl, codecVars, pending>>

\* if (!fs.existsSync(file)) fs.writeFileSync(file, '{}'), in one turn.
InitSync(t) ==
  /\ impl # "gcs"
  /\ tasks[t].pc = "initExists"
  /\ tagsFile' = initializeTagsMapping(tagsFile)
  /\ tasks' = [tasks EXCEPT ![t].pc = "done"]
  /\ last' = InitStep("initSave")
  /\ UNCHANGED <<fetchStore, routeStore, buildMeta, procVars, decl, codecVars, pending>>

\* The call has returned; the request slot is free again.
TaskEnds(t) ==
  /\ tasks[t].pc = "done"
  /\ tasks' = [tasks EXCEPT ![t] = Idle]
  /\ last' = InitStep("taskEnds")
  /\ UNCHANGED <<storeVars, procVars, decl, codecVars, pending>>

InitTagsInit ==
  /\ impl \in {"gcs", "file"}
  /\ env = ServingEnv
  /\ InitStore
  /\ InitNoCodec

NextTagsInit ==
  \/ Construct
  \/ (\A t \in TaskIds : tasks[t] = Idle) /\ ClearSharedCache
  \/ \E t \in TaskIds : InitializerStart(t)
  \/ \E t \in TaskIds : InitExists(t)
  \/ \E t \in TaskIds : InitSave(t)
  \/ \E t \in TaskIds : InitSync(t)
  \/ \E t \in TaskIds, k \in Keys, tags \in IoTagLists : SetStart(t, k, RouteValue, tags)
  \/ \E t \in TaskIds : SetOpen(t)
  \/ \E t \in TaskIds : SetWriteFile(t)
  \/ \E t \in TaskIds : SetWriteObject(t)
  \/ \E t \in TaskIds : SetIndexRead(t)
  \/ \E t \in TaskIds : SetIndexWrite(t)
  \/ \E t \in TaskIds : SetIndexSync(t)
  \/ \E t \in TaskIds : TaskEnds(t)

SpecTagsInit == InitTagsInit /\ [][NextTagsInit]_vars

\* C24: initializeTagsMapping creates the empty index only when the index
\* file is absent and leaves an existing index as it is: under every
\* interleaving of initializers and set calls, no step of an initializer
\* puts an empty index in the place of an index that holds entries.
C24_InitKeepsIndex ==
  [][last'.op = "initSave" =>
       \/ tagsFile = NoFile /\ tagsFile' = writeTagsMapping(EmptyMapping)
       \/ tagsFile' = tagsFile]_vars

\* C25, as stated: a revalidateTag that deleted at least one key, on a
\* handler with a notifier, starts notifier calls that carry the original
\* tags and the set of the deleted keys, with the index already rewritten;
\* a revalidateTag that deleted nothing starts no call.
C25_NotifierGetsDeletedKeys ==
  [][RevalidateStep =>
       LET D == Range(last'.ret)
           calls == last'.edge
       IN IF D = {} THEN calls = <<>>
          ELSE handler.edge =>
                 /\ \E i \in DOMAIN calls :
                      calls[i].m = "clearKeys" /\ calls[i].a = Flat(last'.arg)
                 /\ \E i \in DOMAIN calls :
                      calls[i].m = "clearPaths" /\ Range(calls[i].a) = D
                 /\ \A k \in D, tag \in Tags : ~IndexLists(k, tag)']_vars

\* C25, amended: a revalidateTag that deleted at least one key, on a
\* handler with a notifier, starts clearKeys with the original tags and,
\* when some deleted key begins with "/" or "_", clearPaths with the route
\* paths of those keys only; both are started with the index already
\* rewritten and join the calls in flight.  Without a deleted key, or
\* without a notifier, no call is started.
C25_NotifierGetsTagsAndRoutePaths ==
  [][RevalidateStep =>
       LET D == Range(last'.ret)
           calls == last'.edge
           routes == { k \in D : k[1] \in {"/", "_"} }
       IN /\ pending'.calls = pending.calls \o calls
          /\ IF D = {} \/ ~handler.edge THEN calls = <<>>
             ELSE /\ calls[1] = [m |-> "clearKeys", a |-> Flat(last'.arg)]
                  /\ Len(calls) = IF routes = {} THEN 1 ELSE 2
                  /\ routes # {} =>
                       /\ calls[2].m = "clearPaths"
                       /\ Range(calls[2].a) = { RoutePathOf(k) : k \in routes }
                  /\ \A k \in D, tag \in Tags : ~IndexLists(k, tag)']_vars

\* revalidateTag has deleted a route key and a key that is no route path,
\* and has started clearKeys with the tag and clearPaths with the one path.
C25_Witness ==
  /\ last.op = "revalidateTag"
  /\ handler.edge
  /\ Range(last.ret) = Keys
  /\ Len(last.edge) = 2
  /\ last.edge[1] = [m |-> "clearKeys", a |-> <<"T">>]
  /\ last.edge[2] = [m |-> "clearPaths", a |-> << <<"/", "a">> >>]
  /\ \A k \in Keys : ~IndexLists(k, "T")

-----------------------------------------------------------------------------
(* Deployments over a store that rejects some deletes of the eviction.     *)

GuardEnvs ==
  [phase : {"phase-production-server"}, build : {Build1, Build2, Build3},
   edge : BOOLEAN, bucket : {TRUE}]

InitGuard ==
  /\ impl \in Impls
  /\ env \in GuardEnvs
  /\ InitStore
  /\ InitNoCodec

NextGuard ==
  \/ \E failed \in SUBSET BlobNames : ConstructIO(failed)
  \/ \E e \in GuardEnvs : Restart(e)
  \/ \E k \in Keys : Set(k, RouteValue, <<>>)

SpecGuard == InitGuard /\ [][NextGuard]_vars

\* C26: when the guard finds the stored build identity changed, it
\* overwrites BuildMeta with the identity of the running build and, on a
\* handler with a notifier, starts one full purge, also when deletes of
\* ROUTE blobs fail; a construction that finds the stored identity equal
\* to its own evicts nothing, writes nothing and starts no purge.
C26_BuildChangeProtocol ==
  [][last'.op = "construct" =>
       /\ last'.ret.evicted =>
            /\ buildMeta' = CurrentBuildMeta(impl, env, now)
            /\ handler'.edge => last'.edge = <<NukeCall>>
       /\ (/\ last'.arg.ran
           /\ buildMeta # NoFile
           /\ buildMeta.buildId = CurrentBuildMeta(impl, env, now).buildId)
          => /\ ~last'.ret.evicted
             /\ buildMeta' = buildMeta
             /\ routeStore' = routeStore
             /\ last'.edge = <<>>]_vars

\* C27: the build metadata record lies under neither partition prefix:
\* clearSharedCache, revalidateTag, set and the eviction of the ROUTE
\* partition leave it as it is, and the only step that changes it is a
\* constructor call that runs the build guard.
C27_BuildMetaOutsideCacheTree ==
  [][/\ last'.op \in {"set", "revalidateTag", "clearSharedCache"} => buildMeta' = buildMeta
     /\ buildMeta' # buildMeta => last'.op = "construct" /\ last'.arg.ran
     /\ (last'.op = "construct" /\ ~CallSettled /\ last'.ret.evicted)
          => buildMeta' = CurrentBuildMeta(impl, env, now)]_vars

\* A full clear, run after a revalidateTag, has deleted blobs; the record
\* the guard wrote for the running build is still there.
C27_Witness ==
  /\ last.op = "clearSharedCache"
  /\ last.arg.after = "revalidateTag"
  /\ last.ret > 0
  /\ buildMeta # NoFile
  /\ buildMeta.buildId = getBuildId(env, now)

\* C28: resetRequestCache changes nothing that is stored: every blob of
\* both partitions, the tag index and the build metadata are after it what
\* they were before it, in every state it is called in.
C28_ResetRequestCacheNoOp ==
  [][last'.op = "resetRequestCache" =>
       /\ fetchStore' = fetchStore
       /\ routeStore' = routeStore
       /\ tagsFile' = tagsFile
       /\ buildMeta' = buildMeta]_vars

\* resetRequestCache has run on a store that holds a blob, an index with
\* an entry and the build metadata.
C28_Witness ==
  /\ last.op = "resetRequestCache"
  /\ Live(fetchStore) \cup Live(routeStore) # {}
  /\ \E k \in Keys : IndexLists(k, "T")
  /\ buildMeta # NoFile

\* C29: set writes the blob first and updates the tag index afterwards:
\* no step of a set before the end of its blob write changes the index, a
\* set comes to its index update only from its blob write and only with a
\* non-empty tag list, and its index write lists the key under each tag
\* supplied.  A set with an empty tag list ends with its blob write and
\* leaves the index file as it is.
C29_IndexOnlyForTaggedSet ==
  [][/\ last'.op \in {"setStart", "setOpen", "setWrite", "setIndexRead"}
          => tagsFile' = tagsFile
     /\ \A t \in TaskIds :
          /\ (tasks[t].pc # "index" /\ tasks'[t].pc = "index")
               => /\ last'.op = "setWrite"
                  /\ tasks[t].pc \in {"write", "opened"}
                  /\ tasks'[t].entry.tags # <<>>
          /\ (tasks[t].pc \in {"write", "opened"} /\ tasks'[t].pc = "done")
               => tasks[t].entry.tags = <<>> /\ tagsFile' = tagsFile
     /\ last'.op = "setIndexWrite"
          => LET after == readTagsMapping(tagsFile')
             IN \A i \in DOMAIN last'.arg.tags :
                  /\ last'.arg.tags[i] \in DOMAIN after
                  /\ last'.key \in Range(after[last'.arg.tags[i]])]_vars

\* A set without tags has ended with its blob write: its key is stored
\* and not in the index, which lists the key of a tagged set.
C29_Witness ==
  /\ last.op = "setWrite"
  /\ last.arg.tags = <<>>
  /\ \A t \in TaskIds : tasks[t].pc \in {"idle", "done"}
  /\ routeStore[getCacheFilePath(last.key)] = BlobOf(last.arg)
  /\ ~IndexLists(last.key, "T")
  /\ \E k \in Keys : IndexLists(k, "T")

\* C30: after every sequence of set and revalidateTag calls the index, as
\* written by updateTagsMapping and updateTagsMappingBulkDelete, maps no
\* tag to an empty list and lists no key twice under one tag.
C30_IndexShape ==
  LET m == readTagsMapping(tagsFile)
  IN \A tag \in DOMAIN m :
       /\ m[tag] # <<>>
       /\ \A i, j \in DOMAIN m[tag] : i # j => m[tag][i] # m[tag][j]

\* Two sets of one key, the later under tag T, and no other key set: the
\* index lists the key once under T.
C30_Witness ==
  /\ last.op = "set"
  /\ last.arg.tags = <<"T">>
  /\ last.arg.lastModified = 2
  /\ \A k \in Keys \ {last.key} : decl[k].st = "never"
  /\ tagsFile # NoFile
  /\ DOMAIN readTagsMapping(tagsFile) = {"T"}
  /\ readTagsMapping(tagsFile)["T"] = <<last.key>>

-----------------------------------------------------------------------------
(* Keys that differ only in characters outside [a-zA-Z0-9-].               *)

LossyKeys == { <<"/", "a">>, <<".", "a">> }
LossyNames == { getCacheFilePath(k) : k \in LossyKeys }

InitLossy ==
  /\ impl \in Impls
  /\ env = ServingEnv
  /\ fetchStore = [n \in LossyNames |-> NoFile]
  /\ routeStore = [n \in LossyNames |-> NoFile]
  /\ tagsFile = NoFile
  /\ buildMeta = NoFile
  /\ buildInvalidationChecked = FALSE
  /\ handler = NotConstructed
  /\ now = 1
  /\ last = NoOp
  /\ decl = [k \in LossyKeys |-> NeverSet]
  /\ InitNoCodec

NextLossy ==
  \/ Construct
  \/ \E k \in LossyKeys, v \in BuildValues, tags \in IoTagLists : Set(k, v, tags)
  \/ \E k \in LossyKeys, ctx \in Contexts : Get(k, ctx)
  \/ RevalidateTag(JStr("T"))

SpecLossy == InitLossy /\ [][NextLossy]_vars

\* Two keys that differ only in replaced characters.
Alias(k1, k2) ==
  /\ k1 # k2
  /\ Len(k1) = Len(k2)
  /\ \A i \in DOMAIN k1 : k1[i] # k2[i] => k1[i] \notin SafeChars /\ k2[i] \notin SafeChars

\* C31: two distinct keys that differ only in characters outside
\* [a-zA-Z0-9-] have one blob name, so within a partition they are one
\* entry: get answers both alike, the entry a set wrote under one key is
\* what get returns under the other, and when revalidateTag has deleted
\* the blob of one, get of the other returns absent.
C31_LossyKeyNaming ==
  \A k1, k2 \in LossyKeys :
    Alias(k1, k2) =>
      /\ getCacheFilePath(k1) = getCacheFilePath(k2)
      /\ \A ctx \in Contexts : CacheGet(k1, ctx) = CacheGet(k2, ctx)
      /\ (last.op = "set" /\ last.key = k1)
           => LET e == CacheGet(k2, HintOf(CacheTypeOfValue(last.arg.value)))
              IN e # JNull /\ e.value = last.arg.value /\ e.tags = last.arg.tags
      /\ (/\ last.op = "revalidateTag"
          /\ k1 \in Range(last.ret)
          /\ CacheGet(k1, HintOf("fetch")) = JNull)
           => CacheGet(k2, HintOf("fetch")) = JNull

\* revalidateTag has deleted the fetch entry written under one key; the
\* most recent set was one of the other key, whose get is now a miss.
C31_Witness ==
  /\ last.op = "revalidateTag"
  /\ \E k1, k2 \in LossyKeys :
       /\ Alias(k1, k2)
       /\ last.ret = <<k1>>
       /\ decl[k2].st = "set" /\ decl[k2].part = "fetch" /\ decl[k2].lm = 2
       /\ decl[k2].tags = <<>>
       /\ decl[k1].st = "set" /\ decl[k1].part = "fetch" /\ decl[k1].tags = <<"T">>
       /\ CacheGet(k2, HintOf("fetch")) = JNull

-----------------------------------------------------------------------------
(* A process that loads the in-memory handler.                             *)

InitMemory ==
  /\ impl = "memory"
  /\ env = ServingEnv
  /\ InitStore
  /\ InitNoCodec

NextMemory ==
  \/ \E inst \in Instances, k \in Keys, v \in BuildValues, tags \in TagLists :
       MemSet(inst, k, v, tags)
  \/ \E inst \in Instances, k \in Keys : MemGet(inst, k)
  \/ \E inst \in Instances, tags \in TagInputs : MemRevalidateTag(inst, tags)

SpecMemory == InitMemory /\ [][NextMemory]_vars

\* C32: the instances of the in-memory handler of a process see one
\* store: get of a key returns the same through every instance.
\* revalidateTag through any instance removes the entries whose tag list
\* holds one of the given tags and no other: every other entry, untagged
\* ones included, is after it what it was before, for every instance.
MemShared ==
  \A i, j \in Instances, k \in Keys : memGet(cache, i, k) = memGet(cache, j, k)
MemRevalidateExact ==
  [][last'.op = "revalidateTag" =>
       \A j \in Instances, k \in Keys :
         LET before == memGet(cache, j, k)
             after == memGet(cache', j, k)
         IN IF before # JNull /\ Range(before.tags) \cap Range(Flat(last'.arg)) # {}
            THEN after = JNull
            ELSE after = before]_vars
MemSetSeenByAll ==
  [][last'.op = "set" =>
       \A j \in Instances :
         LET e == memGet(cache', j, last'.key)
         IN e # JNull /\ e.value = last'.arg.value /\ e.tags = last'.arg.tags]_vars
C32_MemoryHandler == []MemShared /\ MemRevalidateExact /\ MemSetSeenByAll

\* After two sets, revalidateTag through one instance: seen through the
\* other instance, the tagged entry is gone and the untagged one is there.
C32_Witness ==
  /\ last.op = "revalidateTag"
  /\ last.inst = "a"
  /\ last.arg = JStr("T")
  /\ now = MaxClock
  /\ \E k1, k2 \in Keys :
       /\ k1 # k2
       /\ memGet(cache, "b", k1) = JNull
       /\ memGet(cache, "b", k2) # JNull
       /\ memGet(cache, "b", k2).tags = <<>>

-----------------------------------------------------------------------------
(* A set whose blob write fails.                                           *)

\* The step is a set whose blob write was refused by the backend.
FailedSetStep == last'.op = "set" /\ last'.io.blob = "error"

\* C33: when the blob write of set(key, value, tags) fails, the tag index
\* is not modified: the index gains no membership for the key of the
\* failed set.
C33_FailedWriteLeavesIndex ==
  [][FailedSetStep =>
       LET before == readTagsMapping(tagsFile)
           after == readTagsMapping(tagsFile')
       IN \A tag \in DOMAIN after :
            last'.key \in Range(after[tag]) =>
              tag \in DOMAIN before /\ last'.key \in Range(before[tag])]_vars

-----------------------------------------------------------------------------
(* revalidateTag, await by await, next to set.  Both handlers read the     *)
(* index once, await one deleteCacheEntry per listed key and then rewrite  *)
(* the index from a fresh read, without the keys they deleted.             *)
(* GcsCacheHandler awaits the fresh read and the write one after the       *)
(* other; the file handlers do both in one synchronous call.  The         *)
(* notifier calls that GcsCacheHandler starts behind the index rewrite     *)
(* are not followed here.                                                  *)

RevalidateStart(t, tag) ==
  /\ handler.constructed
  /\ tasks[t].pc = "idle"
  /\ tasks' = [tasks EXCEPT ![t] = [pc |-> "revRead", tagArray |-> Flat(tag),
                                    todo |-> <<>>, deletedKeys |-> <<>>,
                                    local |-> EmptyMapping]]
  /\ last' = InitStep("revalidateStart")
  /\ UNCHANGED <<storeVars, procVars, decl, codecVars, pending>>

\* tagsMapping = await this.readTagsMapping(); the loops then visit the
\* keys this mapping lists under the given tags.
RevalidateRead(t) ==
  LET todo == KeysOfTags(readTagsMapping(tagsFile), tasks[t].tagArray)
  IN /\ tasks[t].pc = "revRead"
     /\ tasks' = [tasks EXCEPT ![t].pc = IF todo = <<>> THEN "done" ELSE "revDelete",
                               ![t].todo = todo]
     /\ last' = InitStep("revalidateRead")
     /\ UNCHANGED <<storeVars, procVars, decl, codecVars, pending>>

\* One round of the inner loop: await this.deleteCacheEntry(cacheKey, ...).
RevalidateDelete(t) ==
  LET r == DeleteKeys([fs |-> fetchStore, rs |-> routeStore,
                       deletedKeys |-> tasks[t].deletedKeys],
                      <<Head(tasks[t].todo)>>)
      rest == Tail(tasks[t].todo)
  IN /\ tasks[t].pc = "revDelete"
     /\ fetchStore' = r.fs
     /\ routeStore' = r.rs
     /\ tasks' = [tasks EXCEPT ![t].pc = IF rest # <<>> THEN "revDelete"
                                         ELSE IF r.deletedKeys # <<>> THEN "revBulk"
                                         ELSE "done",
                               ![t].todo = rest,
                               ![t].deletedKeys = r.deletedKeys]
     /\ last' = [InitStep("revalidateDelete") EXCEPT !.key = Head(tasks[t].todo)]
     /\ UNCHANGED <<tagsFile, buildMeta, procVars, decl, codecVars, pending>>

\* updateTagsMappingBulkDelete: const tagsMapping = await this.readTagsMapping()
RevalidateBulkRead(t) ==
  /\ impl = "gcs"
  /\ tasks[t].pc = "revBulk"
  /\ tasks' = [tasks EXCEPT ![t].pc = "revBulkWrite", ![t].local = readTagsMapping(tagsFile)]
  /\ last' = InitStep("revalidateBulkRead")
  /\ UNCHANGED <<storeVars, procVars, decl, codecVars, pending>>

\* updateTagsMappingBulkDelete: await this.writeTagsMapping(tagsMapping),
\* the mapping read before, filtered.
RevalidateBulkWrite(t) ==
  /\ impl = "gcs"
  /\ tasks[t].pc = "revBulkWrite"
  /\ tagsFile' = updateTagsMappingBulkDelete(writeTagsMapping(tasks[t].local),
                                             tasks[t].deletedKeys)
  /\ tasks' = [tasks EXCEPT ![t].pc = "done"]
  /\ last' = InitStep("revalidateBulkWrite")
  /\ UNCHANGED <<fetchStore, routeStore, buildMeta, procVars, decl, codecVars, pending>>

\* this.updateTagsMappingBulkDelete(deletedKeys) of the file handlers: read,
\* filter and write in one synchronous call.
RevalidateBulkSync(t) ==
  /\ impl # "gcs"
  /\ tasks[t].pc = "revBulk"
  /\ tagsFile' = updateTagsMappingBulkDelete(tagsFile, tasks[t].deletedKeys)
  /\ tasks' = [tasks EXCEPT ![t].pc = "done"]
  /\ last' = InitStep("revalidateBulkWrite")
  /\ UNCHANGED <<fetchStore, routeStore, buildMeta, procVars, decl, codecVars, pending>>

RevKey == <<"/", "a">>

InitRevRace ==
  /\ impl \in Impls
  /\ env = ServingEnv
  /\ InitStore
  /\ InitNoCodec

NextRevRace ==
  \/ Construct
  \/ \E t \in TaskIds, v \in BuildValues : SetStart(t, RevKey, v, <<"T">>)
  \/ \E t \in TaskIds : SetOpen(t)
  \/ \E t \in TaskIds : SetWriteFile(t)
  \/ \E t \in TaskIds : SetWriteObject(t)
  \/ \E t \in TaskIds : SetIndexRead(t)
  \/ \E t \in TaskIds : SetIndexWrite(t)
  \/ \E t \in TaskIds : SetIndexSync(t)
  \/ \E t \in TaskIds : RevalidateStart(t, JStr("T"))
  \/ \E t \in TaskIds : RevalidateRead(t)
  \/ \E t \in TaskIds : RevalidateDelete(t)
  \/ \E t \in TaskIds : RevalidateBulkRead(t)
  \/ \E t \in TaskIds : RevalidateBulkWrite(t)
  \/ \E t \in TaskIds : RevalidateBulkSync(t)
  \/ \E t \in TaskIds : TaskEnds(t)

SpecRevRace == InitRevRace /\ [][NextRevRace]_vars

\* The call of task t was a revalidateTag and has returned.
RevalidateDone(t) == tasks[t].pc = "done" /\ "tagArray" \in DOMAIN tasks[t]

\* The call of task t was a set of a FETCH value under tag T and has
\* returned.
FetchSetDone(t) ==
  /\ tasks[t].pc = "done"
  /\ "entry" \in DOMAIN tasks[t]
  /\ tasks[t].part = "fetch"
  /\ "T" \in Range(tasks[t].entry.tags)

\* C34: under every interleaving of revalidateTag(T) with a concurrent
\* set(k, v, [T]), once both have completed, if the blob of k exists then
\* k is listed under T in the index.  Stated for the sets of the FETCH
\* partition, whose blobs revalidateTag deletes.
C34_RevalidateKeepsNewEntries ==
  \A r, s \in TaskIds :
    (RevalidateDone(r) /\ FetchSetDone(s)
       /\ fetchStore[getCacheFilePath(tasks[s].key)] # NoFile)
      => IndexLists(tasks[s].key, "T")

-----------------------------------------------------------------------------
(* The build guard, await by await.  The constructor starts                *)
(* checkBuildInvalidation() without awaiting it and returns; the guard     *)
(* then awaits the read of BuildMeta, the eviction and the write of        *)
(* BuildMeta one after the other, while the handler already serves set     *)
(* calls.  The eviction is taken as one step: rm -r removes what the       *)
(* directory holds when it runs, and the deletes of GcsCacheHandler are    *)
(* started together right behind the listing.                              *)

CheckEnvs ==
  [phase : {"phase-production-server"}, build : {Build1, Build3}, edge : {TRUE},
   bucket : {TRUE}]

\* new Handler(): the index file is created, the guard is started when
\* the process has not run it yet, and the constructor returns.
ConstructStart(t) ==
  LET run == RunsBuildCheck(impl, buildInvalidationChecked, env)
  IN /\ ~ConfigError(impl, env)
     /\ tasks[t].pc = "idle"
     /\ handler' = [constructed |-> TRUE, edge |-> impl = "gcs" /\ env.edge]
     /\ tagsFile' = initializeTagsMapping(tagsFile)
     /\ buildInvalidationChecked' = (buildInvalidationChecked \/ run)
     /\ tasks' = IF run
                 THEN [tasks EXCEPT ![t] = [pc |-> "checkRead", check |-> TRUE,
                                            cur |-> CurrentBuildMeta(impl, env, now)]]
                 ELSE tasks
     /\ last' = InitStep("constructStart")
     /\ UNCHANGED <<fetchStore, routeStore, buildMeta, impl, env, now, decl, codecVars,
                    pending>>

\* const buildMeta = await this.readBuildMeta(), and the comparison.
CheckRead(t) ==
  /\ tasks[t].pc = "checkRead"
  /\ tasks' = [tasks EXCEPT ![t].pc =
                 IF buildMeta = NoFile THEN "checkWrite"
                 ELSE IF NewBuildDetected(impl, buildMeta, tasks[t].cur) THEN "checkEvict"
                 ELSE "done"]
  /\ last' = InitStep("checkRead")
  /\ UNCHANGED <<storeVars, procVars, decl, codecVars, pending>>

\* await this.invalidateRouteCache()
CheckEvict(t) ==
  /\ tasks[t].pc = "checkEvict"
  /\ routeStore' = invalidateRouteCache(routeStore)
  /\ tasks' = [tasks EXCEPT ![t].pc = "checkWrite"]
  /\ last' = [InitStep("checkEvict") EXCEPT !.edge = clearEdgeCache(handler)]
  /\ decl' = [k \in DOMAIN decl |->
                IF decl[k].st = "set" THEN [decl[k] EXCEPT !.wiped = TRUE] ELSE decl[k]]
  /\ pending' = Started(pending, clearEdgeCache(handler))
  /\ UNCHANGED <<fetchStore, tagsFile, buildMeta, procVars, codecVars>>

\* await this.writeBuildMeta({buildId, timestamp})
CheckWrite(t) ==
  /\ tasks[t].pc = "checkWrite"
  /\ buildMeta' = [CurrentBuildMeta(impl, env, now) EXCEPT !.buildId = tasks[t].cur.buildId]
  /\ tasks' = [tasks EXCEPT ![t].pc = "done"]
  /\ last' = InitStep("checkWrite")
  /\ UNCHANGED <<fetchStore, routeStore, tagsFile, procVars, decl, codecVars, pending>>

InitCheckRace ==
  /\ impl \in Impls
  /\ env = ServingEnv
  /\ InitStore
  /\ InitNoCodec

NextCheckRace ==
  \/ \E t \in TaskIds : ConstructStart(t)
  \/ \E t \in TaskIds : CheckRead(t)
  \/ \E t \in TaskIds : CheckEvict(t)
  \/ \E t \in TaskIds : CheckWrite(t)
  \/ \E e \in CheckEnvs : (\A t \in TaskIds : tasks[t] = Idle) /\ Restart(e)
  \/ \E t \in TaskIds, k \in Keys : SetStart(t, k, RouteValue, <<>>)
  \/ \E t \in TaskIds : SetOpen(t)
  \/ \E t \in TaskIds : SetWriteFile(t)
  \/ \E t \in TaskIds : SetWriteObject(t)
  \/ \E t \in TaskIds : TaskEnds(t)

SpecCheckRace == InitCheckRace /\ [][NextCheckRace]_vars

\* The build guard that task t ran has finished.
CheckDone(t) == tasks[t].pc = "done" /\ "check" \in DOMAIN tasks[t]

\* The call of task t was a set of a ROUTE value and has returned.
RouteSetDone(t) ==
  tasks[t].pc = "done" /\ "entry" \in DOMAIN tasks[t] /\ tasks[t].part = "route"

\* C35: under every interleaving of the build guard that the constructor
\* started with set calls on the constructed handler, a ROUTE entry whose
\* set completed after construction is still present once the guard has
\* finished.
C35_EvictionSparesNewWrites ==
  \A c, s \in TaskIds :
    (CheckDone(c) /\ RouteSetDone(s))
      => routeStore[getCacheFilePath(tasks[s].key)] # NoFile

\* The call of task t was a set and has returned.
SetDone(t) == tasks[t].pc = "done" /\ "entry" \in DOMAIN tasks[t]

\* C36: in a process of a file handler, under every interleaving of
\* concurrent set calls, a tagged set that has returned is listed in the
\* index under each of its tags: no index update of one call is lost to
\* the update of another.
C36_FileIndexNoLostUpdate ==
  impl # "gcs" =>
    \A t \in TaskIds :
      SetDone(t) =>
        \A i \in DOMAIN tasks[t].entry.tags :
          IndexLists(tasks[t].key, tasks[t].entry.tags[i])

\* Two tagged sets of different keys on a file handler have both returned;
\* the second call was started after the first and updated the index
\* while the first was still in flight, and the index lists both keys.
C36_Witness ==
  /\ impl # "gcs"
  /\ SetDone(1) /\ SetDone(2)
  /\ tasks[1].key # tasks[2].key
  /\ tasks[1].entry.tags = <<"T">> /\ tasks[2].entry.tags = <<"T">>
  /\ tasks[1].entry.lastModified < tasks[2].entry.lastModified
  /\ "T" \in DOMAIN tasks[1].local /\ tasks[2].key \in Range(tasks[1].local["T"])
  /\ IndexLists(tasks[1].key, "T") /\ IndexLists(tasks[2].key, "T")

\* The keys the index lists under at least one of the tags.
IndexedUnder(m, tagArray) ==
  UNION { Range(m[tag]) : tag \in Range(tagArray) \cap DOMAIN m }

\* C37: the keys that revalidateTag counts as invalidated and passes on are
\* as many as the distinct keys the index lists under at least one of the
\* given tags: a key listed under two of the tags is counted once.
C37_EachKeyCountedOnce ==
  [][last'.op = "revalidateTag" =>
       Len(last'.ret) =
         Cardinality(IndexedUnder(readTagsMapping(tagsFile), Flat(last'.arg)))]_vars

\* C38: get is read-only: for every key, hint and store state, whether it
\* hits, misses or fails to read or decode the blob, a get leaves the
\* blobs of both partitions, the tag index and BuildMeta as they were.
C38_GetReadOnly ==
  [][last'.op = "get" =>
       /\ fetchStore' = fetchStore
       /\ routeStore' = routeStore
       /\ tagsFile' = tagsFile
       /\ buildMeta' = buildMeta]_vars

\* A get has answered null for a key whose blob is stored under the hinted
\* partition and was read without a backend error: the blob did not parse
\* or decode, and it is still in the store.
C38_Witness ==
  /\ last.op = "get"
  /\ last.io.read = "ok"
  /\ last.ret = JNull
  /\ StoredBlob(last.key, determineCacheType(last.arg)) # NoFile

\* C39: once the build guard has evicted the ROUTE partition, every key
\* that the tag index still lists under some tag has a blob in one of the
\* two partitions: the index keeps no membership for an evicted ROUTE key.
C39_IndexFollowsEviction ==
  [][(last'.op = "construct" /\ last'.ret.evicted) =>
       LET after == readTagsMapping(tagsFile')
       IN \A tag \in DOMAIN after :
            \A k \in Range(after[tag]) : ~Blobless(fetchStore', routeStore', k)]_vars

\* The minute a timestamp lies in: Math.floor(t / (60 * 1000)).
MinuteOf(t) == t \div MsPerMinute

====
